---- MODULE Spec2Model ----
(***************************************************************************)
(* Disaster-Response-Platform: the enrichment and distribution core.       *)
(*   - the TTL cache kept in the Supabase table `cache`                    *)
(*     (server/utils/cache.js, schema in README.md),                       *)
(*   - the geocoding fallback chain (server/services/geocoding.js),        *)
(*   - the geocoding routes (server/routes/geocoding.js),                  *)
(*   - the Socket.IO rooms and the emits of the route handlers.            *)
(* Time is the JavaScript clock in milliseconds (Date.now()).              *)
(***************************************************************************)
EXTENDS Integers, Sequences, FiniteSets, TLC

VARIABLES
    now,        \* Date.now(), in milliseconds
    cache,      \* the rows of table `cache`: [id, key, value, expires_at]
    evicting,   \* cache-API callers between getCachedData's select and its delete
    last,       \* the latest cache-API event (history)
    req,        \* the geocoding requests in progress, one per caller
    memo,       \* per cache key, the result a geocoding request cached last (history)
    sockets,    \* the Socket.IO clients: connected or not, and the rooms joined
    disasters,  \* the ids of the rows of table `disasters`
    resources,  \* the disaster ids that rows of table `resources` refer to
    emitted,    \* what the latest step sent: a route handler's response status and emit
    reports,    \* table `reports`: the verification_status of each report
    keyed,      \* the latest two cache keys derived, each with its feature and input
    chain,      \* one call of geocodeLocation followed provider by provider
    inbox,      \* per socket, the events its client has received, in order
    published,  \* the events emitted so far, each with its recipients (history)
    rejoined,   \* the latest join by each socket of a room it was already in: the socket,
                \* the disaster and the number of events emitted before (history)
    served,     \* the latest response a route took from the cache, and when (history)
    user,       \* req.user.id of the latest request that passed mockAuth
    trail,      \* column audit_trail of each row of table `disasters`
    pending,    \* per caller, a request between two awaited statements of its handler
    updated,    \* per disaster, the PUT requests answered 200 since its insert (history)
    sampled     \* per disaster, the rows inserted by createSampleResources (history)

\* the columns and requests followed statement by statement (AuditSpec, SampleSpec)
rowVars == <<user, trail, pending, updated, sampled>>

fanVars == <<inbox, published, rejoined, served, rowVars>>

ioVars == <<sockets, disasters, resources, emitted, reports, keyed, chain, fanVars>>

vars == <<now, cache, evicting, last, req, memo, ioVars>>

----------------------------------------------------------------------------
(* Bounds *)

MaxTicks == 2       \* the clock advances at most this many seconds
MaxTtl == 3         \* ttlSeconds ranges over 1..MaxTtl in direct cache calls
MaxRows == 2        \* row ids available per key

Callers == {"c1", "c2"}
Keys == {<<"k1">>, <<"k2">>}
Vals == {[v |-> "v1"], [v |-> "v2"]}

----------------------------------------------------------------------------
(* server/utils/cache.js and the `cache` table *)

MsPerSecond == 1000

\* JavaScript null where a cached value (an object) may stand
Null == [null |-> TRUE]
None == "none"
NoKey == <<>>

ExpiresAtTwice(t, ttlSeconds) == t + (2 * ttlSeconds * MsPerSecond)

\* const expiresAt = new Date(Date.now() + (ttlSeconds * 1000))
ExpiresAt(t, ttlSeconds) == t + (ttlSeconds * MsPerSecond)

IsExpiredAtBoundary(expires_at, t) == expires_at <= t

\* if (new Date(data.expires_at) < new Date())
IsExpired(expires_at, t) == expires_at < t

RowsOf(rows, key) == {r \in rows : r.key = key}

\* id UUID PRIMARY KEY DEFAULT gen_random_uuid(): an id no row of the table
\* has.  No code reads the id, so any fresh one stands for the uuid: the key
\* with the least copy number that is free.
FreshId(rows, key) ==
    <<key, CHOOSE n \in 1..MaxRows : /\ \A r \in rows : r.id # <<key, n>>
                                     /\ \A m \in 1..MaxRows :
                                            (\A r \in rows : r.id # <<key, m>>) => n <= m>>

HasFreshId(rows, key) == \E n \in 1..MaxRows : \A r \in rows : r.id # <<key, n>>

UpsertNoUniqueKey(rows, key, value, expires_at) ==
    [rows |-> rows \cup {[id |-> FreshId(rows, key), key |-> key, value |-> value,
                          expires_at |-> expires_at]},
     error |-> None]

\* supabase.from('cache').upsert({key, value, expires_at}) with no onConflict:
\* INSERT ... ON CONFLICT (id) DO UPDATE. The row carries no id, so the id is
\* a fresh default and the primary key never conflicts; `key TEXT UNIQUE` then
\* rejects a second row for the key with error 23505 and the table is unchanged.
Upsert(rows, key, value, expires_at) ==
    IF RowsOf(rows, key) # {}
    THEN [rows |-> rows, error |-> "23505"]
    ELSE [rows |-> rows \cup {[id |-> FreshId(rows, key), key |-> key, value |-> value,
                               expires_at |-> expires_at]},
          error |-> None]

\* .select('value, expires_at').eq('key', key).single(): the row, or error
\* PGRST116 when the result is not exactly one row
SelectSingle(rows, key) ==
    IF Cardinality(RowsOf(rows, key)) = 1
    THEN [data |-> CHOOSE r \in RowsOf(rows, key) : TRUE, error |-> None]
    ELSE [data |-> Null, error |-> "PGRST116"]

\* .delete().eq('key', key)
DeleteKey(rows, key) == rows \ RowsOf(rows, key)

DeleteLtOrEqual(rows, t) == {r \in rows : ~(r.expires_at <= t)}

\* .delete().lt('expires_at', new Date().toISOString())
DeleteLt(rows, t) == {r \in rows : ~(r.expires_at < t)}

----------------------------------------------------------------------------
(* History records *)

\* op/key/val/at/err: the call, its time and its store error;
\* due: when the ttl given to a set runs out;
\* after: the value of the setCachedData on the same key that came right before
\*        it with no time passed (Null otherwise);
\* ret/seen: what a get returned, and the row of its key when it selected;
\* late: the get is the next call after a set on its key and came more than
\*       that set's ttl after it;
\* pre: the table before a delete.
NoEvent == [op |-> None, key |-> NoKey, val |-> Null, at |-> 0, due |-> 0, err |-> None,
            after |-> Null, ret |-> Null, seen |-> [present |-> FALSE, value |-> Null, expires_at |-> 0],
            late |-> FALSE, pre |-> {}]

NoRow == [value |-> Null, expires_at |-> 0]

\* the value of the latest event when it is a store-reaching set on `key` at this instant
JustSet(key) ==
    IF last.op = "set" /\ last.key = key /\ last.err # "fault" /\ last.at = now
    THEN last.val ELSE Null

\* the value of the latest event when it is a store-reaching set on `key`
SetBefore(key) ==
    IF last.op = "set" /\ last.key = key /\ last.err # "fault"
    THEN last.val ELSE Null

----------------------------------------------------------------------------
(* Cache API.  `fault` is a store-access failure (transport error).       *)

\* setCachedData(key, value, ttlSeconds) at time t: one upsert, whose error is
\* caught and logged.  The table afterwards, and the error.
SetOutcome(rows, key, value, ttlSeconds, t, fault) ==
    IF fault THEN [rows |-> rows, error |-> "fault"]
    ELSE Upsert(rows, key, value, ExpiresAt(t, ttlSeconds))

GetOutcomeRethrows(rows, key, t, fault) ==
    LET sel == IF fault THEN [data |-> Null, error |-> "fault"] ELSE SelectSingle(rows, key)
        row == IF sel.error = None THEN sel.data ELSE NoRow
        expired == sel.error = None /\ IsExpired(row.expires_at, t)
    IN [ret |-> IF sel.error = "fault" THEN [error |-> "fault"]
                ELSE IF sel.error # None \/ expired THEN Null ELSE row.value,
        evict |-> expired]

\* getCachedData(key) at time t up to its return value: the select, the
\* PGRST116 and error branches (null), and the expiry test.  On an expired
\* row (evict) the delete is awaited before null is returned.
GetOutcome(rows, key, t, fault) ==
    LET sel == IF fault THEN [data |-> Null, error |-> "fault"] ELSE SelectSingle(rows, key)
        row == IF sel.error = None THEN sel.data ELSE NoRow
        expired == sel.error = None /\ IsExpired(row.expires_at, t)
    IN [ret |-> IF sel.error # None \/ expired THEN Null ELSE row.value,
        evict |-> expired]

\* the delete of the expired entry; its error is not inspected
EvictOutcome(rows, key, fault) == IF fault THEN rows ELSE DeleteKey(rows, key)

SweepOutcomePartial(rows, t, fault) == DeleteLt(rows, t)

\* clearExpiredCache() at time t: one delete, whose error is caught and logged
SweepOutcome(rows, t, fault) == IF fault THEN rows ELSE DeleteLt(rows, t)

\* the row of `key` as a select would see it (history)
Seen(rows, key) ==
    IF RowsOf(rows, key) = {} THEN NoEvent.seen
    ELSE LET r == CHOOSE r \in RowsOf(rows, key) : TRUE
         IN [present |-> TRUE, value |-> r.value, expires_at |-> r.expires_at]

----------------------------------------------------------------------------
(* The cache API called directly, each call logged in `last` *)

SetCachedData(key, value, ttlSeconds, fault) ==
    /\ HasFreshId(cache, key)
    /\ LET set == SetOutcome(cache, key, value, ttlSeconds, now, fault)
       IN /\ cache' = set.rows
          /\ last' = [NoEvent EXCEPT !.op = "set", !.key = key, !.val = value,
                                     !.at = now, !.due = ExpiresAt(now, ttlSeconds),
                                     !.err = set.error, !.after = SetBefore(key)]
    /\ UNCHANGED <<now, evicting, req, memo, ioVars>>

\* a get that renews the expiry of the row it returns
GetCachedDataSelectSliding(c, key, fault) ==
    /\ evicting[c] = NoKey
    /\ LET out == GetOutcome(cache, key, now, fault)
       IN /\ evicting' = [evicting EXCEPT ![c] = IF out.evict THEN key ELSE NoKey]
          /\ cache' = IF out.ret = Null THEN cache
                      ELSE {IF r.key = key
                            THEN [r EXCEPT !.expires_at = ExpiresAt(now, MaxTtl)]
                            ELSE r : r \in cache}
          /\ last' = [NoEvent EXCEPT !.op = "get", !.key = key, !.at = now,
                          !.err = IF fault THEN "fault" ELSE None,
                          !.after = JustSet(key),
                          !.ret = out.ret,
                          !.seen = Seen(cache, key),
                          !.late = SetBefore(key) # Null /\ now > last.due]
    /\ UNCHANGED <<now, req, memo, ioVars>>

GetCachedDataSelect(c, key, fault) ==
    /\ evicting[c] = NoKey
    /\ LET out == GetOutcome(cache, key, now, fault)
       IN /\ evicting' = [evicting EXCEPT ![c] = IF out.evict THEN key ELSE NoKey]
          /\ last' = [NoEvent EXCEPT !.op = "get", !.key = key, !.at = now,
                          !.err = IF fault THEN "fault" ELSE None,
                          !.after = JustSet(key),
                          !.ret = out.ret,
                          !.seen = Seen(cache, key),
                          !.late = SetBefore(key) # Null /\ now > last.due]
    /\ UNCHANGED <<now, cache, req, memo, ioVars>>

GetCachedDataDelete(c, fault) ==
    /\ evicting[c] # NoKey
    /\ cache' = EvictOutcome(cache, evicting[c], fault)
    /\ evicting' = [evicting EXCEPT ![c] = NoKey]
    /\ last' = [NoEvent EXCEPT !.op = "evict", !.key = evicting[c], !.at = now,
                               !.err = IF fault THEN "fault" ELSE None,
                               !.pre = cache]
    /\ UNCHANGED <<now, req, memo, ioVars>>

\* run by setInterval, independent of the requests
ClearExpiredCache(fault) ==
    /\ cache' = SweepOutcome(cache, now, fault)
    /\ last' = [NoEvent EXCEPT !.op = "sweep", !.at = now,
                               !.err = IF fault THEN "fault" ELSE None,
                               !.pre = cache]
    /\ UNCHANGED <<now, evicting, req, memo, ioVars>>

\* the clock advances by `seconds`, at most MaxTicks times
Tick(seconds) ==
    /\ now + (seconds * MsPerSecond) <= MaxTicks * seconds * MsPerSecond
    /\ now' = now + (seconds * MsPerSecond)
    /\ UNCHANGED <<cache, evicting, last, req, memo, ioVars>>

----------------------------------------------------------------------------
(* server/services/geocoding.js *)

\* const geocoders = [Google Maps, Mapbox, OpenStreetMap]
geocodersMapboxFirst == <<"mapbox", "google_maps", "openstreetmap">>

geocoders == <<"google_maps", "mapbox", "openstreetmap">>

\* the Error a geocoder throws (not configured, failed status, no results, or
\* the axios error): its message names the reason
GeocoderError(p) == [message |-> <<p, "failed">>]

\* throw new Error('All geocoding services failed'); the errors of the
\* geocoders were logged in the loop and are not kept
AllFailedError == [message |-> "All geocoding services failed"]

----------------------------------------------------------------------------
(* server/routes/geocoding.js: POST /coordinates and POST /extract-and-geocode *)

GeocodeTtl == 3600      \* setCachedData(cacheKey, result, 3600)
VerificationTtl == 3600 \* setCachedData(cacheKey, result, 3600), verify-image
KeyChars == 32          \* .toString('base64').slice(0, 32)

Routes == {"coordinates", "extract", "verify"}
ReportIds == {"r1"}
\* location_name and text, as bytes; <<>> is a missing field
Inputs == {<<>>, <<"a">>, <<"b">>}
Texts == {<<>>, <<"a">>}

Min(a, b) == IF a < b THEN a ELSE b

\* the characters of the inputs and their bytes (Buffer.from(input), UTF-8)
Ord == ("a" :> 97) @@ ("b" :> 98) @@ ("A" :> 65) @@ (" " :> 32)

\* the base64 alphabet of Buffer#toString('base64'), and its padding
Base64Chars ==
    <<"A", "B", "C", "D", "E", "F", "G", "H", "I", "J", "K", "L", "M", "N", "O", "P",
      "Q", "R", "S", "T", "U", "V", "W", "X", "Y", "Z", "a", "b", "c", "d", "e", "f",
      "g", "h", "i", "j", "k", "l", "m", "n", "o", "p", "q", "r", "s", "t", "u", "v",
      "w", "x", "y", "z", "0", "1", "2", "3", "4", "5", "6", "7", "8", "9", "+", "/">>
Pad == "="

\* .toString('base64'): each group of three bytes is written as four
\* characters of six bits; a last group of one or two bytes is padded
Base64(input) ==
    [i \in 1..(4 * ((Len(input) + 2) \div 3)) |->
        LET g == (i - 1) \div 4
            j == (i - 1) % 4
            byte(k) == IF 3 * g + k <= Len(input) THEN Ord[input[3 * g + k]] ELSE 0
            bits == byte(1) * 65536 + byte(2) * 256 + byte(3)
            sextet == CASE j = 0 -> bits \div 262144
                        [] j = 1 -> (bits \div 4096) % 64
                        [] j = 2 -> (bits \div 64) % 64
                        [] OTHER -> bits % 64
        IN IF j >= 2 /\ 3 * g + j > Len(input) THEN Pad ELSE Base64Chars[sextet + 1]]

\* Buffer.from(input).toString('base64').slice(0, 32)
Base64Slice(input) ==
    LET encoded == Base64(input)
    IN SubSeq(encoded, 1, Min(Len(encoded), KeyChars))

\* the features that cache, and the prefix of the keys of each, in characters
Features == Routes \cup {"social_media", "official_updates", "resources"}

\* keys written without the prefix of the feature
NamespaceNone(feature) == <<>>

Namespace(feature) ==
    CASE feature = "coordinates" ->
            <<"d", "i", "r", "e", "c", "t", "_", "g", "e", "o", "c", "o", "d", "e", "_">>
      [] feature = "extract" -> <<"g", "e", "o", "c", "o", "d", "e", "_">>
      [] feature = "verify" ->
            <<"i", "m", "a", "g", "e", "_", "v", "e", "r", "i", "f", "i", "c", "a", "t",
              "i", "o", "n", "_">>
      [] feature = "social_media" ->
            <<"s", "o", "c", "i", "a", "l", "_", "m", "e", "d", "i", "a", "_">>
      [] feature = "official_updates" ->
            <<"o", "f", "f", "i", "c", "i", "a", "l", "_", "u", "p", "d", "a", "t", "e",
              "s", "_">>
      [] OTHER -> <<"r", "e", "s", "o", "u", "r", "c", "e", "s", "_">>

\* `direct_geocode_${...}`, `geocode_${...}`, `image_verification_${...}`
cacheKey(route, input) == Namespace(route) \o Base64Slice(input)

\* `social_media_${disasterId}` and `official_updates_${disasterId}`
disasterKey(feature, disasterId) == Namespace(feature) \o disasterId

\* `resources_${disasterId}_${lat}_${lon}_${radius}`; a query parameter that
\* is absent is written "undefined", and radius defaults to 10000
Undefined == <<"undefined">>
DefaultRadius == <<"10000">>
resourcesKey(disasterId, lat, lon, radius) ==
    Namespace("resources") \o disasterId \o <<"_">> \o lat \o <<"_">> \o lon
        \o <<"_">> \o radius

\* the key a feature derives for an input: the text of the geocoding and
\* verification routes, the disaster id of the others (lat and lon absent)
FeatureKey(feature, input) ==
    IF feature \in Routes THEN cacheKey(feature, input)
    ELSE IF feature = "resources" THEN resourcesKey(input, Undefined, Undefined, DefaultRadius)
    ELSE disasterKey(feature, input)

\* inputs around the length that 32 characters of base64 cover: a run of "a"
\* of 0, 23 or 24 bytes, then at most MaxTail further letters; and the text
\* "a" in upper case and with a blank before or after it
MaxTail == 1
KeyBytes == (KeyChars \div 4) * 3
Run(n) == [i \in 1..n |-> "a"]
Tails == UNION {[1..n -> {"a", "b"}] : n \in 0..MaxTail}
Respelled == {<<"A">>, <<"a", " ">>, <<" ", "a">>}
KeyInputs == ({Run(n) \o t : n \in {0, KeyBytes - 1, KeyBytes}, t \in Tails} \ {<<>>})
                 \cup Respelled

\* a handler derives its cache key; the latest two derivations are kept
DeriveKey(feature, input) ==
    /\ LET e == [feature |-> feature, input |-> input, key |-> FeatureKey(feature, input)]
       IN keyed' = IF keyed = <<>> THEN <<e>> ELSE <<keyed[Len(keyed)], e>>
    /\ UNCHANGED <<now, cache, evicting, last, req, memo, sockets, disasters, resources,
                   emitted, reports, chain, fanVars>>

GeoKeys == {cacheKey("coordinates", x) : x \in Inputs \ {<<>>}}
               \cup {cacheKey("extract", x) : x \in Texts \ {<<>>}}
               \cup {cacheKey("verify", x) : x \in Texts \ {<<>>}}

\* a request: where it stands (pc), its route and input, the index of the next
\* geocoder, the geocoders invoked with their outcomes, the extracted
\* primary_location, geocodingResult, and the response (status, body);
\* thrown is what geocodeLocation threw; report_id, verification and
\* verification_status belong to verify-image, and path (history) tells how
\* its verification result came about, stamp is the `new Date()` of its result
\* object, built before the report is updated; aborted (history) tells that
\* the client has closed the connection before the response;
\* owed is history: the cached result that was within its TTL at the lookup
NewRequest == [pc |-> "idle", route |-> None, input |-> <<>>, idx |-> 1, tried |-> <<>>,
               primary |-> "null", geo |-> Null, thrown |-> Null, status |-> 0,
               body |-> Null, owed |-> Null,
               report_id |-> None, verification |-> Null, verification_status |-> None,
               path |-> None, stamp |-> 0, aborted |-> FALSE]

KeyOf(q) == cacheKey(q.route, q.input)

\* the `result` object of the routes, stamped in the turn that hands it to
\* setCachedData; only verify-image with a report_id stamps it earlier, before
\* it awaits the update of the report
Result(q, t) ==
    IF q.route = "coordinates"
    THEN [location_name |-> q.input, geocoding |-> q.geo, timestamp |-> t]
    ELSE IF q.route = "extract"
    THEN [input_text |-> q.input, primary_location |-> q.primary, geocoding |-> q.geo,
          timestamp |-> t]
    ELSE IF q.verification_status = None
    THEN [report_id |-> q.report_id, image_url |-> q.input,
          verification |-> q.verification, timestamp |-> t]
    ELSE [report_id |-> q.report_id, image_url |-> q.input,
          verification |-> q.verification, timestamp |-> q.stamp,
          verification_status |-> q.verification_status]

\* the TTL a route caches its result with
TtlOf(route) == IF route = "verify" THEN VerificationTtl ELSE GeocodeTtl

\* after a cache miss: /coordinates geocodes, /extract-and-geocode asks Gemini
\* first, verify-image asks Gemini
MissPc(route) ==
    IF route = "coordinates" THEN "geocode"
    ELSE IF route = "extract" THEN "extract" ELSE "verify"

\* the handler up to the cache lookup: a missing field is answered 400
Start(r, route, input) ==
    /\ req[r].pc = "idle"
    /\ req' = [req EXCEPT ![r] =
                 IF input = <<>>
                 THEN [NewRequest EXCEPT !.pc = "done", !.route = route, !.status = 400]
                 ELSE [NewRequest EXCEPT !.pc = "lookup", !.route = route, !.input = input]]
    /\ UNCHANGED <<now, cache, evicting, last, memo, ioVars>>

\* const cachedResult = await getCachedData(cacheKey);
\* if (cachedResult) return res.json(cachedResult)
Lookup(r, fault) ==
    /\ req[r].pc = "lookup"
    /\ LET k == KeyOf(req[r])
           out == GetOutcome(cache, k, now, fault)
           owed == IF ~fault /\ memo[k] # Null /\ now < ExpiresAt(memo[k].timestamp, TtlOf(req[r].route))
                   THEN memo[k] ELSE Null
       IN /\ evicting' = [evicting EXCEPT ![r] = IF out.evict THEN k ELSE NoKey]
          /\ req' = [req EXCEPT ![r] =
                       IF out.ret # Null
                       THEN [@ EXCEPT !.pc = "done", !.status = 200, !.body = out.ret,
                                      !.owed = owed]
                       ELSE [@ EXCEPT !.pc = IF out.evict THEN "evict"
                                             ELSE MissPc(req[r].route),
                                      !.owed = owed]]
    /\ UNCHANGED <<now, cache, last, memo, ioVars>>

\* getCachedData's delete of the expired entry, then the miss path
Evict(r, fault) ==
    /\ req[r].pc = "evict"
    /\ cache' = EvictOutcome(cache, evicting[r], fault)
    /\ evicting' = [evicting EXCEPT ![r] = NoKey]
    /\ req' = [req EXCEPT ![r].pc = MissPc(req[r].route)]
    /\ UNCHANGED <<now, last, memo, ioVars>>

\* /extract-and-geocode, step 1: callGeminiAPI and parseLocationExtractionResponse,
\* or extractLocationsFallback when Gemini throws; primary_location is a
\* location name or null.  With no primary_location nothing is geocoded.
Extract(r, primary) ==
    /\ req[r].pc = "extract"
    /\ req' = [req EXCEPT ![r].primary = primary,
                          ![r].pc = IF primary = "null" THEN "store" ELSE "geocode"]
    /\ UNCHANGED <<now, cache, evicting, last, memo, ioVars>>

\* geocodeLocation: one turn of `for (const geocoder of geocoders)`.  The
\* geocoder returns a result (ok) or throws (not configured, transport error,
\* timeout, bad status, no results).  After the last one has thrown,
\* geocodeLocation throws 'All geocoding services failed': /coordinates answers
\* 500 from its catch, /extract-and-geocode logs and goes on with
\* geocodingResult = null.
Geocode(r, ok) ==
    /\ req[r].pc = "geocode"
    /\ LET q == req[r]
           p == geocoders[q.idx]
           tried == Append(q.tried, [p |-> p, ok |-> ok])
       IN req' = [req EXCEPT ![r] =
                    IF ok
                    THEN [q EXCEPT !.tried = tried, !.geo = [service |-> p], !.pc = "store"]
                    ELSE IF q.idx < Len(geocoders)
                    THEN [q EXCEPT !.tried = tried, !.idx = q.idx + 1]
                    ELSE IF q.route = "coordinates"
                    THEN [q EXCEPT !.tried = tried, !.thrown = AllFailedError,
                                   !.pc = "done", !.status = 500]
                    ELSE [q EXCEPT !.tried = tried, !.thrown = AllFailedError,
                                   !.pc = "store"]]
    /\ UNCHANGED <<now, cache, evicting, last, memo, ioVars>>

\* const result = {...}; await setCachedData(cacheKey, result, 3600); res.json(result)
Store(r, fault) ==
    /\ req[r].pc = "store"
    /\ HasFreshId(cache, KeyOf(req[r]))
    /\ LET q == req[r]
           result == Result(q, now)
           set == SetOutcome(cache, KeyOf(q), result, TtlOf(q.route), now, fault)
       IN /\ cache' = set.rows
          /\ req' = [req EXCEPT ![r] = [q EXCEPT !.pc = "done", !.status = 200,
                                                 !.body = result]]
          /\ memo' = IF set.error = None THEN [memo EXCEPT ![KeyOf(q)] = result] ELSE memo
    /\ UNCHANGED <<now, evicting, last, ioVars>>

\* setInterval(clearExpiredCache, 60 * 60 * 1000), while requests are served
Sweep(fault) ==
    /\ cache' = SweepOutcome(cache, now, fault)
    /\ UNCHANGED <<now, evicting, last, req, memo, ioVars>>

\* the client closes the connection while its request is being handled.  The
\* handlers register no req.on('close') and pass no signal to axios, so
\* nothing in the server takes note.
ClientCloses(r) ==
    /\ req[r].pc \in {"lookup", "evict", "geocode", "store"}
    /\ ~req[r].aborted
    /\ req' = [req EXCEPT ![r].aborted = TRUE]
    /\ UNCHANGED <<now, cache, evicting, last, memo, ioVars>>

\* the response is sent; the caller may send its next request
Finish(r) ==
    /\ req[r].pc = "done"
    /\ req' = [req EXCEPT ![r] = NewRequest]
    /\ UNCHANGED <<now, cache, evicting, last, memo, ioVars>>

----------------------------------------------------------------------------
(* server/services/geocoding.js, one call followed through its awaits *)

\* GOOGLE_MAPS_API_KEY and MAPBOX_ACCESS_TOKEN, named by the geocoder that
\* reads them; OpenStreetMap needs none
Credentials == {"google_maps", "mapbox"}

\* what comes back from axios.get: a payload with a result, a payload without
\* one (status not OK, no results, no features, empty array), or a rejection
\* (transport error, HTTP error status, the 10 s timeout)
Responses == {"result", "no result", "rejected"}

\* a call of geocodeLocation in the process with the credentials env: the
\* position in the loop, the geocoders whose request is in flight, and for
\* each geocoder invoked whether it sent a request and how it ended
NewChain(env) == [env |-> env, pc |-> "idle", name |-> <<>>, idx |-> 1, inflight |-> {},
                  tried |-> <<>>, result |-> Null, thrown |-> Null]

\* a geocoder that sends its request whether or not its credential is set
ConfiguredAlways(env, p) == TRUE

\* if (!GOOGLE_MAPS_API_KEY) throw ..., if (!MAPBOX_ACCESS_TOKEN) throw ...
Configured(env, p) == p \in Credentials => p \in env

\* a loop that starts over after the last geocoder has failed
ContinueAround(c) ==
    IF c.idx < Len(geocoders)
    THEN [c EXCEPT !.idx = c.idx + 1, !.pc = "loop"]
    ELSE [c EXCEPT !.idx = 1, !.pc = "loop", !.tried = <<>>]

\* catch (error) { logger.warn(...); continue; } and, after the last geocoder,
\* throw new Error('All geocoding services failed')
Continue(c) ==
    IF c.idx < Len(geocoders)
    THEN [c EXCEPT !.idx = c.idx + 1, !.pc = "loop"]
    ELSE [c EXCEPT !.pc = "threw", !.thrown = AllFailedError]

\* geocodeLocation(locationName) is called
ChainCall(name) ==
    /\ chain.pc \in {"idle", "returned", "threw"}
    /\ chain' = [NewChain(chain.env) EXCEPT !.pc = "loop", !.name = name]
    /\ UNCHANGED <<now, cache, evicting, last, req, memo, sockets, disasters, resources,
                   emitted, reports, keyed, fanVars>>

\* a loop that starts the next geocoder without awaiting the one in flight
ChainInvokeAll ==
    /\ chain.pc \in {"loop", "await"}
    /\ geocoders[chain.idx] \notin chain.inflight
    /\ LET p == geocoders[chain.idx]
       IN chain' = [chain EXCEPT
                       !.inflight = @ \cup {p},
                       !.tried = Append(@, [p |-> p, sent |-> TRUE, ended |-> None]),
                       !.idx = IF @ < Len(geocoders) THEN @ + 1 ELSE @,
                       !.pc = "await"]
    /\ UNCHANGED <<now, cache, evicting, last, req, memo, sockets, disasters, resources,
                   emitted, reports, keyed, fanVars>>

\* const result = await geocoder(), up to the await: the geocoder throws at
\* once when its credential is missing, else it sends its request
ChainInvoke ==
    /\ chain.pc = "loop"
    /\ LET p == geocoders[chain.idx]
       IN chain' = IF Configured(chain.env, p)
                   THEN [chain EXCEPT
                            !.inflight = @ \cup {p},
                            !.tried = Append(@, [p |-> p, sent |-> TRUE, ended |-> None]),
                            !.pc = "await"]
                   ELSE Continue([chain EXCEPT
                            !.tried = Append(@, [p |-> p, sent |-> FALSE,
                                                 ended |-> "not configured"])])
    /\ UNCHANGED <<now, cache, evicting, last, req, memo, sockets, disasters, resources,
                   emitted, reports, keyed, fanVars>>

\* a geocoder that asks again after a rejection
ChainRespondRetry(response) ==
    /\ chain.pc = "await"
    /\ LET p == geocoders[chain.idx]
           ended == [chain EXCEPT !.inflight = @ \ {p},
                                  !.tried[Len(chain.tried)].ended = response]
       IN chain' = IF response = "result"
                   THEN [ended EXCEPT !.pc = "returned", !.result = [service |-> p]]
                   ELSE IF response = "rejected" /\ Len(chain.tried) < Len(geocoders) + 1
                   THEN [ended EXCEPT !.pc = "loop"]
                   ELSE Continue(ended)
    /\ UNCHANGED <<now, cache, evicting, last, req, memo, sockets, disasters, resources,
                   emitted, reports, keyed, fanVars>>

\* the awaited request ends: with a result the geocoder returns it and
\* geocodeLocation returns it; without one, or rejected, the geocoder throws
ChainRespond(response) ==
    /\ chain.pc = "await"
    /\ LET p == geocoders[chain.idx]
           ended == [chain EXCEPT !.inflight = @ \ {p},
                                  !.tried[Len(chain.tried)].ended = response]
       IN chain' = IF response = "result"
                   THEN [ended EXCEPT !.pc = "returned", !.result = [service |-> p]]
                   ELSE Continue(ended)
    /\ UNCHANGED <<now, cache, evicting, last, req, memo, sockets, disasters, resources,
                   emitted, reports, keyed, fanVars>>

----------------------------------------------------------------------------
(* server/services/gemini.js and server/routes/verification.js:              *)
(* POST /verification/:disasterId/verify-image                               *)

RandomRange == 40           \* Math.floor(Math.random() * 40)
RandomBase == 60            \* ... + 60
DefaultScore == 75          \* authenticity_score: 75
HighFrom == 80              \* score >= 80 ? 'high'
MediumFrom == 60            \* score >= 60 ? 'medium'
ReviewBelow == 70           \* score < 70 ? ['requires_manual_review']
VerifiedFrom == 70          \* authenticity_score >= 70 ? 'verified'
QuestionableFrom == 40      \* authenticity_score >= 40 ? 'questionable'

\* the draws of Math.floor(Math.random() * 40) that the routes are run with:
\* the least and the greatest, and those next to the thresholds of the score
Draws == {0, ReviewBelow - RandomBase - 1, ReviewBelow - RandomBase,
          HighFrom - RandomBase - 1, HighFrom - RandomBase, RandomRange - 1}

\* A Gemini answer is a text, here a sequence of tokens: an opening brace, a
\* closing brace, a "key": value member, or prose.
Open == [t |-> "{"]
Close == [t |-> "}"]
Prose == [t |-> "prose"]
Member(k, v) == [t |-> "member", k |-> k, v |-> v]

\* the members of a complete verification object with the given score
Members(score, level) ==
    <<Member("authenticity_score", score), Member("confidence_level", level),
      Member("analysis_notes", "notes"), Member("disaster_type", "flood"),
      Member("flags", <<>>)>>

GeminiTexts ==
    { <<Prose>>,
      <<Open>> \o Members(90, "high") \o <<Close>>,
      <<Prose, Open>> \o Members(50, "medium") \o <<Close, Prose>>,
      <<Open>> \o Members(30, "low") \o <<Close>>,
      <<Open, Member("authenticity_score", 90), Close>>,
      <<Open, Close>>,
      <<Open, Prose, Close>>,
      <<Open, Member("authenticity_score", 90), Close, Prose, Open, Close>>,
      <<Close, Prose, Open>> }

\* callGeminiAPI: it throws without an API key, on an axios error or timeout
\* and on a response with no candidate text; else it returns the text
GeminiOutcomes ==
    {[error |-> e] : e \in {"not configured", "failed", "timeout", "invalid format"}}
        \cup {[text |-> x] : x \in GeminiTexts}

Threw(outcome) == "error" \in DOMAIN outcome

Least(S) == CHOOSE n \in S : \A m \in S : n <= m
Greatest(S) == CHOOSE n \in S : \A m \in S : n >= m

\* geminiResponse.match(/\{[\s\S]*\}/): from the first opening brace that has a
\* closing brace after it to the last closing brace; <<>> is null
JsonMatch(text) ==
    LET opens == {i \in 1..Len(text) : text[i] = Open}
        closes == {i \in 1..Len(text) : text[i] = Close}
    IN IF opens = {} \/ closes = {} \/ Least(opens) > Greatest(closes) THEN <<>>
       ELSE SubSeq(text, Least(opens), Greatest(closes))

\* the text is one JSON object: members between one pair of braces
JsonValid(m) ==
    /\ Len(m) >= 2 /\ m[1] = Open /\ m[Len(m)] = Close
    /\ \A i \in 2..(Len(m) - 1) : m[i].t = "member"

\* JSON.parse: the object of the members (of a repeated key the last counts)
JsonParse(m) ==
    LET at == 2..(Len(m) - 1)
    IN [k \in {m[i].k : i \in at} |->
            m[Greatest({i \in at : m[i].k = k})].v]

\* a fallback that forgets the + 60
generateFallbackVerificationNoBase(k) ==
    LET score == k
    IN [authenticity_score |-> score,
        confidence_level |-> IF score >= HighFrom THEN "high"
                             ELSE IF score >= MediumFrom THEN "medium" ELSE "low",
        analysis_notes |-> "Automated analysis completed.",
        disaster_type |-> "unspecified",
        flags |-> IF score < ReviewBelow THEN <<"requires_manual_review">> ELSE <<>>,
        method |-> "fallback_analysis"]

generateFallbackVerificationNoLevel(k) ==
    LET score == k + RandomBase
    IN [authenticity_score |-> score,
        analysis_notes |-> "Automated analysis completed.",
        disaster_type |-> "unspecified",
        flags |-> IF score < ReviewBelow THEN <<"requires_manual_review">> ELSE <<>>,
        method |-> "fallback_analysis"]

\* generateFallbackVerification, with k = Math.floor(Math.random() * 40)
generateFallbackVerification(k) ==
    LET score == k + RandomBase
    IN [authenticity_score |-> score,
        confidence_level |-> IF score >= HighFrom THEN "high"
                             ELSE IF score >= MediumFrom THEN "medium" ELSE "low",
        analysis_notes |-> "Automated analysis completed.",
        disaster_type |-> "unspecified",
        flags |-> IF score < ReviewBelow THEN <<"requires_manual_review">> ELSE <<>>,
        method |-> "fallback_analysis"]

\* the object returned when the text holds no JSON object
DefaultVerification ==
    [authenticity_score |-> DefaultScore, confidence_level |-> "medium",
     analysis_notes |-> "Image appears to show legitimate disaster conditions.",
     disaster_type |-> "general_emergency", flags |-> <<>>]

\* parseGeminiVerificationResponse: the parsed JSON object when the text holds
\* one, the default when it holds none, the fallback when JSON.parse throws
parseGeminiVerificationResponse(text, k) ==
    LET jsonMatch == JsonMatch(text)
    IN IF jsonMatch = <<>> THEN DefaultVerification
       ELSE IF JsonValid(jsonMatch) THEN JsonParse(jsonMatch)
       ELSE generateFallbackVerification(k)

\* let verificationResult: try { parse(await callGeminiAPI(...)) }
\* catch { generateFallbackVerification(image_url) }
Verification(outcome, k) ==
    IF Threw(outcome) THEN generateFallbackVerification(k)
    ELSE parseGeminiVerificationResponse(outcome.text, k)

\* how the verification result came about (history)
Path(outcome) ==
    IF Threw(outcome) THEN "fallback"
    ELSE IF JsonMatch(outcome.text) = <<>> THEN "default"
    ELSE IF JsonValid(JsonMatch(outcome.text)) THEN "parsed" ELSE "parse fallback"

\* a score missing from the object is undefined, and undefined >= n is false
ScoreAtLeast(v, n) == "authenticity_score" \in DOMAIN v /\ v.authenticity_score >= n

\* thresholds that belong to the lower status
VerificationStatusExclusive(v) ==
    IF ScoreAtLeast(v, VerifiedFrom + 1) THEN "verified"
    ELSE IF ScoreAtLeast(v, QuestionableFrom + 1) THEN "questionable" ELSE "rejected"

\* const status = score >= 70 ? 'verified' : score >= 40 ? 'questionable' : 'rejected'
VerificationStatus(v) ==
    IF ScoreAtLeast(v, VerifiedFrom) THEN "verified"
    ELSE IF ScoreAtLeast(v, QuestionableFrom) THEN "questionable" ELSE "rejected"

\* verify-image up to the cache lookup: without image_url it answers 400
StartVerify(r, image_url, report_id) ==
    /\ req[r].pc = "idle"
    /\ req' = [req EXCEPT ![r] =
                 IF image_url = <<>>
                 THEN [NewRequest EXCEPT !.pc = "done", !.route = "verify", !.status = 400]
                 ELSE [NewRequest EXCEPT !.pc = "lookup", !.route = "verify",
                                         !.input = image_url, !.report_id = report_id]]
    /\ UNCHANGED <<now, cache, evicting, last, memo, ioVars>>

\* the Gemini call and the parse of its answer, or the fallback when either
\* throws; k is the draw of Math.random should the fallback run.  The result
\* object is built in the same turn: `timestamp: new Date().toISOString()`.
VerifyImage(r, outcome, k) ==
    /\ req[r].pc = "verify"
    /\ req' = [req EXCEPT ![r].verification = Verification(outcome, k),
                          ![r].path = Path(outcome),
                          ![r].stamp = now,
                          ![r].pc = IF req[r].report_id # None THEN "report" ELSE "store"]
    /\ UNCHANGED <<now, cache, evicting, last, memo, ioVars>>

\* if (report_id): the status of the score is written to the report (the
\* error of the update is not inspected) and added to the result
UpdateReport(r, fault) ==
    /\ req[r].pc = "report"
    /\ LET status == VerificationStatus(req[r].verification)
       IN /\ reports' = IF fault \/ req[r].report_id \notin ReportIds THEN reports
                         ELSE [reports EXCEPT ![req[r].report_id] = status]
          /\ req' = [req EXCEPT ![r].verification_status = status, ![r].pc = "store"]
    /\ UNCHANGED <<now, cache, evicting, last, memo, sockets, disasters, resources, emitted,
                   keyed, chain, fanVars>>

----------------------------------------------------------------------------
(* Socket.IO: server/index.js and the emits of the route handlers *)

Sockets == {"s1", "s2"}
Disasters == {"d1", "d2"}

SocialMediaTtl == 300   \* setCachedData(cacheKey, result, 300)
ResourcesTtl == 600     \* setCachedData(cacheKey, result, 600)
OfficialUpdatesTtl == 1800  \* setCachedData(cacheKey, result, 1800)

\* `disaster_${disasterId}`
Room(d) == <<"disaster_", d>>

NewSocket == [connected |-> FALSE, rooms |-> {}]

\* what a route handler sent: the response status and, when it emitted, the
\* event, the disaster it concerns, the recipients (to) and, as history, the
\* sockets that were in the room of that disaster (members); a step of a
\* socket sends nothing
NoEmit == [status |-> 0, event |-> None, type |-> None, disaster |-> None,
           to |-> {}, members |-> {}]

Connected == {s \in Sockets : sockets[s].connected}

\* the sockets that have joined the room of disaster d
InRoom(d) == {s \in Sockets : Room(d) \in sockets[s].rooms}

\* a response with no emit
Reply(status) == [NoEmit EXCEPT !.status = status]

\* req.io.emit(event, payload): to every connected socket
EmitAll(status, event, type, d) ==
    [status |-> status, event |-> event, type |-> type, disaster |-> d,
     to |-> Connected, members |-> InRoom(d)]

\* req.io.to(`disaster_${d}`).emit(event, payload): to the sockets in the room
EmitToRoom(status, event, type, d) ==
    [status |-> status, event |-> event, type |-> type, disaster |-> d,
     to |-> InRoom(d), members |-> InRoom(d)]

\* io.on('connection', ...): a client connects; it is in no disaster room
Connection(s) ==
    /\ ~sockets[s].connected
    /\ sockets' = [sockets EXCEPT ![s] = [connected |-> TRUE, rooms |-> {}]]
    /\ emitted' = NoEmit
    /\ UNCHANGED <<now, cache, evicting, last, req, memo, disasters, resources, reports, keyed, chain>>

\* a join that toggles: it takes the socket out of a room it is in
JoinDisasterToggle(s, d) ==
    /\ sockets[s].connected
    /\ sockets' = [sockets EXCEPT ![s].rooms = IF Room(d) \in @ THEN @ \ {Room(d)}
                                               ELSE @ \cup {Room(d)}]
    /\ emitted' = NoEmit
    /\ UNCHANGED <<now, cache, evicting, last, req, memo, disasters, resources, reports, keyed, chain>>

\* socket.on('join_disaster', disasterId): socket.join(`disaster_${disasterId}`);
\* the id is not looked up in table `disasters`
JoinDisaster(s, d) ==
    /\ sockets[s].connected
    /\ sockets' = [sockets EXCEPT ![s].rooms = @ \cup {Room(d)}]
    /\ emitted' = NoEmit
    /\ UNCHANGED <<now, cache, evicting, last, req, memo, disasters, resources, reports, keyed, chain>>

\* a disconnect that leaves the socket in its rooms
DisconnectKeepsRooms(s) ==
    /\ sockets[s].connected
    /\ sockets' = [sockets EXCEPT ![s].connected = FALSE]
    /\ emitted' = NoEmit
    /\ UNCHANGED <<now, cache, evicting, last, req, memo, disasters, resources, reports, keyed, chain>>

\* socket.on('disconnect'): the handler logs; Socket.IO has taken the socket out
\* of its rooms
Disconnect(s) ==
    /\ sockets[s].connected
    /\ sockets' = [sockets EXCEPT ![s] = NewSocket]
    /\ emitted' = NoEmit
    /\ UNCHANGED <<now, cache, evicting, last, req, memo, disasters, resources, reports, keyed, chain>>

\* a handler that emits before it knows that the insert succeeded
PostDisasterEmitsFirst(valid, fault) ==
    /\ \/ /\ ~valid /\ ~fault
          /\ emitted' = Reply(400)
          /\ UNCHANGED disasters
       \/ /\ valid
          /\ \E d \in Disasters \ disasters :
                /\ disasters' = IF fault THEN disasters ELSE disasters \cup {d}
                /\ emitted' = EmitAll(IF fault THEN 500 ELSE 201, "disaster_updated",
                                      "create", d)
    /\ UNCHANGED <<now, cache, evicting, last, req, memo, sockets, resources, reports, keyed, chain>>

\* POST /disasters: 400 without title or description; insert (the id is the
\* table's fresh default), 500 when it fails; emit, 201
PostDisaster(valid, fault) ==
    /\ \/ /\ ~valid /\ ~fault
          /\ emitted' = Reply(400)
          /\ UNCHANGED disasters
       \/ /\ valid /\ fault
          /\ emitted' = Reply(500)
          /\ UNCHANGED disasters
       \/ /\ valid /\ ~fault
          /\ \E d \in Disasters \ disasters :
                /\ disasters' = disasters \cup {d}
                /\ emitted' = EmitAll(201, "disaster_updated", "create", d)
    /\ UNCHANGED <<now, cache, evicting, last, req, memo, sockets, resources, reports, keyed, chain>>

\* PUT /disasters/:id: select audit_trail (404 on PGRST116, 500 on another
\* error), update (500 when it fails), emit, 200
PutDisaster(d, fetchFault, updateFault) ==
    /\ fetchFault => ~updateFault              \* no update after a failed select
    /\ LET status == IF fetchFault THEN 500
                     ELSE IF d \notin disasters THEN 404
                     ELSE IF updateFault THEN 500 ELSE 200
       IN emitted' = IF status = 200 THEN EmitAll(200, "disaster_updated", "update", d)
                     ELSE Reply(status)
    /\ UNCHANGED <<now, cache, evicting, last, req, memo, sockets, disasters, resources, reports, keyed, chain>>

\* a delete that tells the clients of a record it did not find
DeleteDisasterEmitsOn404(d, fault) ==
    /\ LET status == IF fault THEN 500 ELSE IF d \notin disasters THEN 404 ELSE 200
       IN /\ disasters' = IF status = 200 THEN disasters \ {d} ELSE disasters
          /\ resources' = IF status = 200 THEN resources \ {d} ELSE resources
          /\ emitted' = IF status # 500 THEN EmitAll(status, "disaster_updated", "delete", d)
                        ELSE Reply(status)
    /\ UNCHANGED <<now, cache, evicting, last, req, memo, sockets, reports, keyed, chain>>

\* DELETE /disasters/:id: delete().eq('id', id).select().single() (404 on
\* PGRST116, 500 on another error), emit, 200.  The rows of `resources` go with
\* the disaster (ON DELETE CASCADE).
DeleteDisaster(d, fault) ==
    /\ LET status == IF fault THEN 500 ELSE IF d \notin disasters THEN 404 ELSE 200
       IN /\ disasters' = IF status = 200 THEN disasters \ {d} ELSE disasters
          /\ resources' = IF status = 200 THEN resources \ {d} ELSE resources
          /\ emitted' = IF status = 200 THEN EmitAll(200, "disaster_updated", "delete", d)
                        ELSE Reply(status)
    /\ UNCHANGED <<now, cache, evicting, last, req, memo, sockets, reports, keyed, chain>>

\* getCachedData as a route awaits it: the select and, on an expired row, the delete
CacheRead(rows, key, t, fault) ==
    LET out == GetOutcome(rows, key, t, fault)
    IN [ret |-> out.ret,
        rows |-> IF out.evict THEN EvictOutcome(rows, key, fault) ELSE rows]

\* GET /social-media/:disasterId: the cached result when there is one (no
\* emit); else the disaster is selected (404 on PGRST116, 500 on another
\* error), the mock posts are classified, the result is cached for 300 s and
\* emitted to the room of the disaster, 200
GetSocialMedia(d, cacheFault, fault) ==
    /\ LET key == disasterKey("social_media", <<d>>)
           read == CacheRead(cache, key, now, cacheFault)
           status == IF read.ret # Null THEN 200
                     ELSE IF fault THEN 500
                     ELSE IF d \notin disasters THEN 404 ELSE 200
           result == [disaster_id |-> d, last_updated |-> now]
       IN IF read.ret = Null /\ status = 200
          THEN /\ cache' = SetOutcome(read.rows, key, result, SocialMediaTtl, now,
                                      cacheFault).rows
               /\ emitted' = EmitToRoom(200, "social_media_updated", None, d)
          ELSE /\ cache' = read.rows
               /\ emitted' = Reply(status)
    /\ UNCHANGED <<now, evicting, last, req, memo, sockets, disasters, resources, reports, keyed, chain>>

\* GET /updates/:disasterId: the cached result when there is one; else the
\* disaster is selected (404 on PGRST116, 500 on another error), the updates
\* are put together (a failure to fetch real ones is caught), the result is
\* cached for 1800 s, 200.  Nothing is emitted.
GetOfficialUpdates(d, cacheFault, fault) ==
    /\ LET key == disasterKey("official_updates", <<d>>)
           read == CacheRead(cache, key, now, cacheFault)
           status == IF read.ret # Null THEN 200
                     ELSE IF fault THEN 500
                     ELSE IF d \notin disasters THEN 404 ELSE 200
           result == [disaster_id |-> d, last_updated |-> now]
       IN /\ cache' = IF read.ret = Null /\ status = 200
                      THEN SetOutcome(read.rows, key, result, OfficialUpdatesTtl, now,
                                      cacheFault).rows
                      ELSE read.rows
          /\ emitted' = Reply(status)
    /\ UNCHANGED <<now, evicting, last, req, memo, sockets, disasters, resources, reports, keyed, chain>>

\* GET /resources/:disasterId: the cached result when there is one (no emit);
\* with lat and lon the rpc get_nearby_resources, whose result is cached and
\* emitted; without them, or when the rpc fails, the plain query (500 when it
\* fails), sample resources inserted when the disaster has none (the insert
\* needs the disaster to exist: disaster_id REFERENCES disasters(id));
\* the result is cached for 600 s and emitted to the room of the disaster, 200
GetResources(d, coords, spatialError, cacheFault, fault) ==
    /\ spatialError => coords                  \* the rpc runs only with lat and lon
    /\ (coords /\ ~spatialError) => ~fault     \* and its result is returned with no further query
    /\ LET key == resourcesKey(<<d>>, IF coords THEN <<"lat">> ELSE Undefined,
                               IF coords THEN <<"lon">> ELSE Undefined, DefaultRadius)
           read == CacheRead(cache, key, now, cacheFault)
           spatial == coords /\ ~spatialError
           status == IF read.ret # Null \/ spatial THEN 200
                     ELSE IF fault THEN 500 ELSE 200
           sample == ~spatial /\ d \notin resources /\ d \in disasters
           result == [disaster_id |-> d]
       IN IF read.ret = Null /\ status = 200
          THEN /\ cache' = SetOutcome(read.rows, key, result, ResourcesTtl, now,
                                      cacheFault).rows
               /\ resources' = IF sample THEN resources \cup {d} ELSE resources
               /\ emitted' = EmitToRoom(200, "resources_updated", None, d)
          ELSE /\ cache' = read.rows
               /\ UNCHANGED resources
               /\ emitted' = Reply(status)
    /\ UNCHANGED <<now, evicting, last, req, memo, sockets, disasters, reports, keyed, chain>>

\* POST /resources: 400 without disaster_id, name or type; insert (500 when it
\* fails: disaster_id REFERENCES disasters(id)); emit to the room of the
\* disaster, 201
PostResources(d, valid, fault) ==
    /\ ~valid => ~fault                        \* no insert after the 400
    /\ LET status == IF ~valid THEN 400
                     ELSE IF fault \/ d \notin disasters THEN 500 ELSE 201
       IN /\ resources' = IF status = 201 THEN resources \cup {d} ELSE resources
          /\ emitted' = IF status = 201
                        THEN EmitToRoom(201, "resources_updated", "create", d)
                        ELSE Reply(status)
    /\ UNCHANGED <<now, cache, evicting, last, req, memo, sockets, disasters, reports, keyed, chain>>

\* the events followed to the clients
MaxEvents == 2

\* no response has come from the cache yet
NoServe == [feature |-> None, body |-> Null, at |-> 0]

\* what getCachedData gave the route of `feature` for `key`: when it is a
\* value, the response is that value (`if (cachedData) return res.json(cachedData)`)
Served(feature, key, cacheFault) ==
    LET read == CacheRead(cache, key, now, cacheFault)
    IN IF read.ret # Null THEN [feature |-> feature, body |-> read.ret, at |-> now]
       ELSE served

\* what the client of socket s sees of the socket's steps: a connection, a
\* join and a disconnect send it nothing (the handlers emit nothing, and a room
\* keeps no past events to send to a socket that joins)
Arrived(s) == UNCHANGED fanVars

\* a room that replays its past events to a socket that joins
JoinedWithReplay(s, d) ==
    /\ rejoined' = IF Room(d) \in sockets[s].rooms
                    THEN {t \in rejoined : t[1] # s} \cup {<<s, d, Len(published)>>}
                    ELSE rejoined
    /\ inbox' = [inbox EXCEPT ![s] =
                    @ \o SelectSeq([i \in DOMAIN published |-> i],
                                   LAMBDA i : /\ published[i].disaster = d
                                              /\ \A n \in DOMAIN inbox[s] : inbox[s][n] # i)]
    /\ UNCHANGED <<published, served, rowVars>>

Joined(s, d) ==
    /\ rejoined' = IF Room(d) \in sockets[s].rooms
                    THEN {t \in rejoined : t[1] # s} \cup {<<s, d, Len(published)>>}
                    ELSE rejoined
    /\ UNCHANGED <<inbox, published, served, rowVars>>

Disconnected(s) ==
    /\ rejoined' = {t \in rejoined : t[1] # s}
    /\ UNCHANGED <<inbox, published, served, rowVars>>

\* an emit that gives up at a recipient it cannot write to: nobody receives
DeliverAllOrNothing(failing) ==
    /\ failing \subseteq emitted'.to
    /\ IF emitted'.event = None
       THEN UNCHANGED <<inbox, published>>
       ELSE /\ Len(published) < MaxEvents
            /\ published' = Append(published,
                                   [event |-> emitted'.event, type |-> emitted'.type,
                                    disaster |-> emitted'.disaster,
                                    to |-> emitted'.to, members |-> emitted'.members,
                                    failed |-> failing,
                                    status |-> emitted'.status])
            /\ inbox' = [s \in Sockets |->
                            IF s \in emitted'.to /\ failing = {}
                            THEN Append(inbox[s], Len(published) + 1) ELSE inbox[s]]
    /\ UNCHANGED <<rejoined, served, rowVars>>

\* what emit does with the packet: Socket.IO writes it to the transport of each
\* recipient on its own and returns; the clients in `failing` have a broken or
\* stalled transport and do not receive it, the others append it to what they
\* have received.  The handler gets no result and goes on to its response.
Deliver(failing) ==
    /\ failing \subseteq emitted'.to
    /\ IF emitted'.event = None
       THEN UNCHANGED <<inbox, published>>
       ELSE /\ Len(published) < MaxEvents
            /\ published' = Append(published,
                                   [event |-> emitted'.event, type |-> emitted'.type,
                                    disaster |-> emitted'.disaster,
                                    to |-> emitted'.to, members |-> emitted'.members,
                                    failed |-> failing,
                                    status |-> emitted'.status])
            /\ inbox' = [s \in Sockets |->
                            IF s \in emitted'.to \ failing
                            THEN Append(inbox[s], Len(published) + 1) ELSE inbox[s]]
    /\ UNCHANGED <<rejoined, served, rowVars>>

----------------------------------------------------------------------------
(* Authentication, the audit trail and the sample resources, statement by statement *)

\* MOCK_USERS: the permissions of each user
Users == {"netrunnerX", "reliefAdmin", "fieldWorker", "volunteer"}

MOCK_USERS ==
    [u \in Users |->
        CASE u \in {"netrunnerX", "reliefAdmin"} -> {"create", "read", "update", "delete"}
          [] u = "fieldWorker" -> {"create", "read", "update"}
          [] OTHER -> {"create", "read"}]

\* what a request carries as its Bearer token or as ?user_id=: nothing, a
\* user's id, or a string that is no user's id
Bearers == Users \cup {None, "guest"}

\* mockAuth: the default user, replaced by a Bearer token that is a user's id,
\* replaced by a user_id query parameter that is a user's id
mockAuth(bearer, query) ==
    LET byHeader == IF bearer \in Users THEN bearer ELSE "netrunnerX"
    IN IF query \in Users THEN query ELSE byHeader

\* requirePermission(permission) applied to req.user: the middleware lets the
\* request through.  It is exported; no route mounts it.
requirePermission(permission, u) == permission \in MOCK_USERS[u]

\* the successful PUTs followed per disaster
MaxUpdates == 1

\* createSampleResources inserts four rows
SampleRows == 4

\* no request of the caller is between two statements
Idle == [pc |-> "idle", d |-> None, read |-> <<>>, user |-> None, key |-> NoKey]

\* an element of audit_trail
Entry(action, u) == [action |-> action, user_id |-> u]

\* the id of an inserted row is the table's fresh default (gen_random_uuid()):
\* no request in flight names it
FreshRow == \A c \in Callers : pending[c].d \notin disasters' \ disasters

\* POST /disasters behind mockAuth: the row is inserted with
\* audit_trail = [{action: 'create', user_id: req.user.id}]
AuditPostDisaster(bearer, query, valid, fault) ==
    /\ PostDisaster(valid, fault)
    /\ FreshRow
    /\ user' = mockAuth(bearer, query)
    /\ trail' = [d \in Disasters |->
                    IF d \in disasters' \ disasters THEN <<Entry("create", user')>>
                    ELSE trail[d]]
    /\ UNCHANGED <<inbox, published, rejoined, served, pending, updated, sampled>>

\* PUT /disasters/:id behind mockAuth, up to its first statement: select
\* audit_trail of the row (404 on PGRST116, 500 on another error); the handler
\* holds the array it read
PutSelect(c, bearer, query, d, fetchFault) ==
    /\ pending[c].pc = "idle"
    /\ updated[d] < MaxUpdates
    /\ user' = mockAuth(bearer, query)
    /\ IF fetchFault \/ d \notin disasters
       THEN /\ emitted' = Reply(IF fetchFault THEN 500 ELSE 404)
            /\ UNCHANGED pending
       ELSE /\ emitted' = NoEmit
            /\ pending' = [pending EXCEPT ![c] =
                              [pc |-> "update", d |-> d, read |-> trail[d],
                               user |-> user', key |-> NoKey]]
    /\ UNCHANGED <<now, cache, evicting, last, req, memo, sockets, disasters, resources,
                   reports, keyed, chain, inbox, published, rejoined, served, trail,
                   updated, sampled>>

\* the array that the update statement writes to audit_trail
Appended(c) ==
    Append(pending[c].read, Entry("update", pending[c].user))

\* PUT /disasters/:id, its second statement: update the row with
\* audit_trail = [...read, {action: 'update', user_id}] (500 when it fails or
\* the row is gone: single() finds no row), emit, 200
PutUpdate(c, updateFault) ==
    /\ pending[c].pc = "update"
    /\ LET d == pending[c].d
           ok == ~updateFault /\ d \in disasters
       IN /\ trail' = IF ok THEN [trail EXCEPT ![d] = Appended(c)] ELSE trail
          /\ updated' = IF ok THEN [updated EXCEPT ![d] = @ + 1] ELSE updated
          /\ emitted' = IF ok THEN EmitAll(200, "disaster_updated", "update", d)
                        ELSE Reply(500)
    /\ pending' = [pending EXCEPT ![c] = Idle]
    /\ UNCHANGED <<now, cache, evicting, last, req, memo, sockets, disasters, resources,
                   reports, keyed, chain, inbox, published, rejoined, served, user,
                   sampled>>

\* DELETE /disasters/:id behind mockAuth: the row goes with its audit_trail,
\* and its rows of `resources` with it
AuditDeleteDisaster(bearer, query, d, fault) ==
    /\ DeleteDisaster(d, fault)
    /\ user' = mockAuth(bearer, query)
    /\ trail' = [x \in Disasters |-> IF x \in disasters \ disasters' THEN <<>> ELSE trail[x]]
    /\ updated' = [x \in Disasters |-> IF x \in disasters \ disasters' THEN 0 ELSE updated[x]]
    /\ sampled' = [x \in Disasters |-> IF x \in disasters \ disasters' THEN 0 ELSE sampled[x]]
    /\ UNCHANGED <<inbox, published, rejoined, served, pending>>

\* GET /resources/:disasterId up to its query of table `resources`: the cache
\* lookup, the rpc when lat and lon are given, the query.  With rows (or a hit,
\* a spatial result or a failed query) the handler runs to its end; with no
\* row it goes on to createSampleResources
GetResourcesQuery(c, d, coords, spatialError, cacheFault, fault) ==
    /\ pending[c].pc = "idle"
    /\ spatialError => coords
    /\ LET key == resourcesKey(<<d>>, IF coords THEN <<"lat">> ELSE Undefined,
                               IF coords THEN <<"lon">> ELSE Undefined, DefaultRadius)
           read == CacheRead(cache, key, now, cacheFault)
           spatial == coords /\ ~spatialError
           empty == read.ret = Null /\ ~spatial /\ ~fault /\ d \notin resources
       IN IF empty
          THEN /\ cache' = read.rows
               /\ pending' = [pending EXCEPT ![c] =
                                 [pc |-> "insert", d |-> d, read |-> <<>>,
                                  user |-> None, key |-> key]]
               /\ emitted' = NoEmit
               /\ UNCHANGED <<now, evicting, last, req, memo, sockets, disasters,
                              resources, reports, keyed, chain>>
          ELSE /\ GetResources(d, coords, spatialError, cacheFault, fault)
               /\ UNCHANGED pending
    /\ UNCHANGED <<inbox, published, rejoined, served, user, trail, updated, sampled>>

\* createSampleResources and the rest of the handler: insert the four rows
\* (on an error, or for an id that is no disaster's, the helper logs and
\* returns []), setCachedData, emit to the room, 200
GetResourcesInsert(c, insertFault, cacheFault) ==
    /\ pending[c].pc = "insert"
    /\ LET d == pending[c].d
           ok == ~insertFault /\ d \in disasters
       IN /\ resources' = IF ok THEN resources \cup {d} ELSE resources
          /\ sampled' = IF ok THEN [sampled EXCEPT ![d] = @ + SampleRows] ELSE sampled
          /\ cache' = SetOutcome(cache, pending[c].key, [disaster_id |-> d],
                                 ResourcesTtl, now, cacheFault).rows
          /\ emitted' = EmitToRoom(200, "resources_updated", None, d)
    /\ pending' = [pending EXCEPT ![c] = Idle]
    /\ UNCHANGED <<now, evicting, last, req, memo, sockets, disasters, reports, keyed,
                   chain, inbox, published, rejoined, served, user, trail, updated>>

----------------------------------------------------------------------------
(* CacheSpec: the cache API called directly, by concurrent callers *)

\* the server has started: the cache table is empty, no client is connected
Boot ==
    /\ now = 0
    /\ cache = {}
    /\ evicting = [c \in Callers |-> NoKey]
    /\ last = NoEvent
    /\ req = [c \in Callers |-> NewRequest]
    /\ memo = [k \in GeoKeys |-> Null]
    /\ sockets = [s \in Sockets |-> NewSocket]
    /\ resources = {}
    /\ emitted = NoEmit
    /\ reports = [id \in ReportIds |-> "pending"]
    /\ keyed = <<>>
    /\ inbox = [s \in Sockets |-> <<>>]
    /\ published = <<>>
    /\ rejoined = {}
    /\ served = NoServe
    /\ user = None
    /\ trail = [d \in Disasters |-> <<>>]
    /\ pending = [c \in Callers |-> Idle]
    /\ updated = [d \in Disasters |-> 0]
    /\ sampled = [d \in Disasters |-> 0]

\* with no disaster in the database yet
Init == Boot /\ disasters = {} /\ chain = NewChain(Credentials)

CacheSet == \E k \in Keys, v \in Vals, t \in 1..MaxTtl, f \in BOOLEAN :
                SetCachedData(k, v, t, f)

CacheGet == \E c \in Callers, k \in Keys, f \in BOOLEAN : GetCachedDataSelect(c, k, f)

CacheEvict == \E c \in Callers, f \in BOOLEAN : GetCachedDataDelete(c, f)

CacheSweep == \E f \in BOOLEAN : ClearExpiredCache(f)

CacheTick == Tick(1)

CacheNext == CacheSet \/ CacheGet \/ CacheEvict \/ CacheSweep \/ CacheTick

CacheSpec == Init /\ [][CacheNext]_vars

----------------------------------------------------------------------------
(* Spec: POST /coordinates served to concurrent callers, with the hourly   *)
(* sweep and the clock (in steps of the route's TTL).                       *)
(* ExtractSpec: the same for POST /extract-and-geocode.  The two routes     *)
(* share no cache key (their namespaces differ), so each is run on its own. *)

StartCoordinates == \E r \in Callers, x \in Inputs : Start(r, "coordinates", x)

StartExtract == \E r \in Callers, x \in Texts : Start(r, "extract", x)

GeoLookup == \E r \in Callers, f \in BOOLEAN : Lookup(r, f)

GeoEvict == \E r \in Callers, f \in BOOLEAN : Evict(r, f)

GeoExtract == \E r \in Callers, primary \in {"null", "Main Street"} : Extract(r, primary)

GeoGeocode == \E r \in Callers, ok \in BOOLEAN : Geocode(r, ok)

GeoStore == \E r \in Callers, f \in BOOLEAN : Store(r, f)

GeoFinish == \E r \in Callers : Finish(r)

GeoSweep == \E f \in BOOLEAN : Sweep(f)

GeoTick == Tick(GeocodeTtl)

Next == \/ StartCoordinates \/ GeoLookup \/ GeoEvict \/ GeoGeocode
        \/ GeoStore \/ GeoFinish \/ GeoSweep \/ GeoTick

Spec == Init /\ [][Next]_vars

ExtractNext == \/ StartExtract \/ GeoLookup \/ GeoEvict \/ GeoExtract \/ GeoGeocode
               \/ GeoStore \/ GeoFinish \/ GeoSweep \/ GeoTick

ExtractSpec == Init /\ [][ExtractNext]_vars

\* SoloSpec: POST /coordinates served to one caller at a time, with the sweep
\* and the clock.  With no second request in flight, the table tells what
\* the cache calls of the request did.
Solo == "c1"

SoloStart == \E x \in Inputs : Start(Solo, "coordinates", x)

SoloLookup == \E f \in BOOLEAN : Lookup(Solo, f)

SoloEvict == \E f \in BOOLEAN : Evict(Solo, f)

SoloGeocode == \E ok \in BOOLEAN : Geocode(Solo, ok)

SoloStore == \E f \in BOOLEAN : Store(Solo, f)

SoloFinish == Finish(Solo)

SoloNext == \/ SoloStart \/ SoloLookup \/ SoloEvict \/ SoloGeocode
            \/ SoloStore \/ SoloFinish \/ GeoSweep \/ GeoTick

SoloSpec == Init /\ [][SoloNext]_vars

\* CancelSpec: the same, and the client may go away at any await
SoloCloses == ClientCloses(Solo)

CancelNext == \/ SoloStart \/ SoloLookup \/ SoloEvict \/ SoloGeocode
              \/ SoloStore \/ SoloFinish \/ SoloCloses \/ GeoSweep \/ GeoTick

CancelSpec == Init /\ [][CancelNext]_vars

\* VerifySpec: POST /verification/:disasterId/verify-image served to one
\* caller at a time, with the sweep and the clock
VerifyStart == \E x \in Texts, id \in {None} \cup ReportIds : StartVerify(Solo, x, id)

VerifyAnalyse == \E o \in GeminiOutcomes, k \in Draws : VerifyImage(Solo, o, k)

VerifyReport == \E f \in BOOLEAN : UpdateReport(Solo, f)

VerifyNext == \/ VerifyStart \/ SoloLookup \/ SoloEvict \/ VerifyAnalyse \/ VerifyReport
              \/ SoloStore \/ SoloFinish \/ GeoSweep \/ GeoTick

VerifySpec == Init /\ [][VerifyNext]_vars

----------------------------------------------------------------------------
(* ChainSpec: calls of geocodeLocation, one at a time, in a process started  *)
(* with any of the credentials set or missing.                               *)

ChainStart == \E name \in Inputs \ {<<>>} : ChainCall(name)

ChainAwait == \E response \in Responses : ChainRespond(response)

ChainNext == ChainStart \/ ChainInvoke \/ ChainAwait

ChainInit == Boot /\ disasters = {} /\ chain \in {NewChain(env) : env \in SUBSET Credentials}

ChainSpec == ChainInit /\ [][ChainNext]_vars

\* the same where the event loop runs the continuation that is ready, and
\* every request ends: each axios.get is given { timeout: 10000 }
ChainLiveSpec ==
    ChainInit /\ [][ChainNext]_vars /\ WF_vars(ChainInvoke) /\ WF_vars(ChainAwait)

----------------------------------------------------------------------------
(* TopicSpec: the Socket.IO clients and the disaster, resource and social  *)
(* media routes.                                                           *)

KeyNext == \E feature \in Features, input \in KeyInputs : DeriveKey(feature, input)

KeySpec == Init /\ [][KeyNext]_vars

TopicConnection == \E s \in Sockets :
    /\ Connection(s)
    /\ UNCHANGED fanVars

TopicJoin == \E s \in Sockets, d \in Disasters :
    /\ JoinDisaster(s, d)
    /\ UNCHANGED fanVars

TopicDisconnect == \E s \in Sockets :
    /\ Disconnect(s)
    /\ UNCHANGED fanVars

TopicPostDisaster == \E valid \in BOOLEAN, f \in BOOLEAN :
    /\ PostDisaster(valid, f)
    /\ UNCHANGED fanVars

TopicPutDisaster == \E d \in Disasters, f \in BOOLEAN, g \in BOOLEAN :
    /\ PutDisaster(d, f, g)
    /\ UNCHANGED fanVars

TopicDeleteDisaster == \E d \in Disasters, f \in BOOLEAN :
    /\ DeleteDisaster(d, f)
    /\ UNCHANGED fanVars

TopicGetSocialMedia == \E d \in Disasters, c \in BOOLEAN, f \in BOOLEAN :
    /\ GetSocialMedia(d, c, f)
    /\ UNCHANGED fanVars

TopicGetResources == \E d \in Disasters, coords \in BOOLEAN, e \in BOOLEAN,
                        c \in BOOLEAN, f \in BOOLEAN :
    /\ GetResources(d, coords, e, c, f)
    /\ UNCHANGED fanVars

TopicPostResources == \E d \in Disasters, valid \in BOOLEAN, f \in BOOLEAN :
    /\ PostResources(d, valid, f)
    /\ UNCHANGED fanVars

TopicNext == \/ TopicConnection \/ TopicJoin \/ TopicDisconnect
             \/ TopicPostDisaster \/ TopicPutDisaster \/ TopicDeleteDisaster
             \/ TopicGetSocialMedia \/ TopicGetResources \/ TopicPostResources

TopicSpec == Init /\ [][TopicNext]_vars

FanoutConnection == \E s \in Sockets :
    /\ Connection(s)
    /\ Arrived(s)

FanoutJoin == \E s \in Sockets, d \in Disasters :
    /\ JoinDisaster(s, d)
    /\ Joined(s, d)

FanoutDisconnect == \E s \in Sockets :
    /\ Disconnect(s)
    /\ Disconnected(s)

FanoutPostResources == \E d \in Disasters, valid \in BOOLEAN, f \in BOOLEAN,
                          failing \in SUBSET Sockets :
    /\ PostResources(d, valid, f)
    /\ Deliver(failing)

FanoutNext == \/ FanoutConnection \/ FanoutJoin \/ FanoutDisconnect
              \/ FanoutPostResources

\* the disasters are in the database when the server starts
FanoutInit == Boot /\ disasters = Disasters /\ chain = NewChain(Credentials)

FanoutSpec == FanoutInit /\ [][FanoutNext]_vars

NotifyPostDisaster == \E valid \in BOOLEAN, f \in BOOLEAN, failing \in SUBSET Sockets :
    /\ PostDisaster(valid, f)
    /\ Deliver(failing)

NotifyPutDisaster == \E d \in Disasters, f \in BOOLEAN, g \in BOOLEAN,
                        failing \in SUBSET Sockets :
    /\ PutDisaster(d, f, g)
    /\ Deliver(failing)

NotifyDeleteDisaster == \E d \in Disasters, f \in BOOLEAN, failing \in SUBSET Sockets :
    /\ DeleteDisaster(d, f)
    /\ Deliver(failing)

\* the clients stay connected here: a delivery fails through `failing`
NotifyNext == \/ TopicConnection \/ TopicJoin
              \/ NotifyPostDisaster \/ NotifyPutDisaster \/ NotifyDeleteDisaster
              \/ FanoutPostResources

NotifySpec == Init /\ [][NotifyNext]_vars

----------------------------------------------------------------------------
(* The cached kinds of response under a clock (TtlSpec, FeedSpec) *)

\* README, Caching Strategy: social media 5 minutes, official updates 30
\* minutes, geocoding results 1 hour, image verification 1 hour
Documented == {"social_media", "official_updates", "coordinates", "extract", "verify"}

DocumentedTtl(kind) ==
    CASE kind = "social_media" -> 5 * 60
      [] kind = "official_updates" -> 30 * 60
      [] kind \in {"coordinates", "extract"} -> 60 * 60
      [] kind = "verify" -> 60 * 60

TtlStartCoordinates == Start(Solo, "coordinates", <<"a">>)

TtlStartVerify == \E id \in {None} \cup ReportIds : StartVerify(Solo, <<"a">>, id)

\* the Gemini call throws and the fallback makes the verification
TtlAnalyse == \E o \in {o \in GeminiOutcomes : Threw(o)} : VerifyImage(Solo, o, 0)

\* the time the update of the report takes
TtlLatency == req[Solo].pc = "report" /\ Tick(1)

TtlHourPasses == Tick(GeocodeTtl)

\* geocoding results and image verifications, one request at a time
TtlNext == \/ TtlStartCoordinates \/ TtlStartVerify
           \/ SoloLookup \/ SoloEvict \/ SoloGeocode \/ TtlAnalyse \/ VerifyReport
           \/ SoloStore \/ SoloFinish
           \/ TtlLatency \/ TtlHourPasses

TtlSpec == Init /\ [][TtlNext]_vars

FeedGetSocialMedia == \E d \in Disasters, c \in BOOLEAN, f \in BOOLEAN :
    /\ GetSocialMedia(d, c, f)
    /\ served' = Served("social_media", disasterKey("social_media", <<d>>), c)
    /\ UNCHANGED <<inbox, published, rejoined, rowVars>>

FeedGetOfficialUpdates == \E d \in Disasters, c \in BOOLEAN, f \in BOOLEAN :
    /\ GetOfficialUpdates(d, c, f)
    /\ served' = Served("official_updates", disasterKey("official_updates", <<d>>), c)
    /\ UNCHANGED <<inbox, published, rejoined, rowVars>>

FeedSocialMediaPasses == Tick(SocialMediaTtl)

FeedOfficialUpdatesPass == Tick(OfficialUpdatesTtl)

\* social media and official updates
FeedNext == \/ FeedGetSocialMedia \/ FeedGetOfficialUpdates
            \/ FeedSocialMediaPasses \/ FeedOfficialUpdatesPass

FeedSpec == FanoutInit /\ [][FeedNext]_vars

----------------------------------------------------------------------------
(* AuditSpec: the disaster routes behind mockAuth, two requests at a time *)

\* the requests of AuditSpec come from three users: the default one, 'fieldWorker'
\* and 'volunteer'
AuditBearers == {None, "fieldWorker", "volunteer"}

AuditPost == \E bearer \in AuditBearers, query \in AuditBearers, valid \in BOOLEAN,
                f \in BOOLEAN :
    AuditPostDisaster(bearer, query, valid, f)

AuditPutSelect == \E c \in Callers, bearer \in AuditBearers, query \in AuditBearers,
                     d \in Disasters, f \in BOOLEAN :
    PutSelect(c, bearer, query, d, f)

AuditPutUpdate == \E c \in Callers, f \in BOOLEAN : PutUpdate(c, f)

AuditDelete == \E bearer \in AuditBearers, query \in AuditBearers, d \in Disasters,
                  f \in BOOLEAN :
    AuditDeleteDisaster(bearer, query, d, f)

AuditNext == AuditPost \/ AuditPutSelect \/ AuditPutUpdate \/ AuditDelete

AuditSpec == Init /\ [][AuditNext]_vars

----------------------------------------------------------------------------
(* AuthSpec: the disaster routes called by every user, one request at a time *)

AuthPost == \E bearer \in Bearers, query \in Bearers, valid \in BOOLEAN, f \in BOOLEAN :
    AuditPostDisaster(bearer, query, valid, f)

AuthPutSelect == \E bearer \in Bearers, query \in Bearers, d \in Disasters, f \in BOOLEAN :
    PutSelect(Solo, bearer, query, d, f)

AuthPutUpdate == \E f \in BOOLEAN : PutUpdate(Solo, f)

AuthDelete == \E bearer \in Bearers, query \in Bearers, d \in Disasters, f \in BOOLEAN :
    AuditDeleteDisaster(bearer, query, d, f)

AuthNext == AuthPost \/ AuthPutSelect \/ AuthPutUpdate \/ AuthDelete

AuthSpec == Init /\ [][AuthNext]_vars

----------------------------------------------------------------------------
(* SampleSpec: GET /resources/:disasterId, two requests at a time *)

SampleQuery == \E c \in Callers, d \in Disasters, coords \in BOOLEAN, e \in BOOLEAN,
                  cf \in BOOLEAN, f \in BOOLEAN :
    GetResourcesQuery(c, d, coords, e, cf, f)

SampleInsert == \E c \in Callers, f \in BOOLEAN, cf \in BOOLEAN :
    GetResourcesInsert(c, f, cf)

SampleResourcesPass == Tick(ResourcesTtl)

SampleNext == SampleQuery \/ SampleInsert \/ SampleResourcesPass

SampleSpec == FanoutInit /\ [][SampleNext]_vars

----------------------------------------------------------------------------
(* Socket.IO rooms (TopicSpec) *)

\* C3 (as claimed): a socket receives an event only if it has joined the room
\* of the disaster the event concerns; a socket that joined only another
\* disaster's room, or no room, receives nothing.  This covers
\* disaster_updated, resources_updated and social_media_updated.
C3_TopicScoping ==
    \A s \in emitted.to : s \in emitted.members

----------------------------------------------------------------------------
(* The geocoding routes (Spec, ExtractSpec) *)

\* every geocoder of the chain was invoked by the request and failed
AllFailed(q) ==
    /\ Len(q.tried) = Len(geocoders)
    /\ \A i \in 1..Len(q.tried) : ~q.tried[i].ok

\* C1 (as claimed): a request whose geocoding chain failed entirely writes no
\* cache entry for its key.
C1_NoCacheOnFailure ==
    \A r \in Callers :
        AllFailed(req[r]) =>
            \A row \in RowsOf(cache, KeyOf(req[r])) : row.value # req[r].body

\* C4: geocodeLocation invokes its providers in the declared order (Google
\* Maps, Mapbox, OpenStreetMap), returns the result of the first provider that
\* succeeds, and invokes no provider after the one that succeeded.
C4_FallbackOrderShortCircuit ==
    \A r \in Callers :
        LET q == req[r]
            n == Len(q.tried)
        IN /\ n <= 3
           /\ \A i \in 1..n : q.tried[i].p = <<"google_maps", "mapbox", "openstreetmap">>[i]
           /\ \A i \in 1..(n - 1) : ~q.tried[i].ok
           /\ (n >= 1 /\ q.tried[n].ok) => (q.geo # Null /\ q.geo.service = q.tried[n].p)
           /\ q.geo # Null => (n >= 1 /\ q.tried[n].ok)

\* C4 witness: Google Maps failed, Mapbox succeeded, the request answered with
\* Mapbox's result and OpenStreetMap was not invoked.
C4_Witness ==
    \E r \in Callers :
        /\ req[r].pc = "done" /\ req[r].status = 200
        /\ req[r].tried = <<[p |-> "google_maps", ok |-> FALSE], [p |-> "mapbox", ok |-> TRUE]>>
        /\ req[r].body.geocoding = [service |-> "mapbox"]

\* C5 (as claimed): after an enrichment for an input has succeeded and been
\* cached with TTL t, a second request for the same input within t (whose
\* cache read succeeds) is answered with the identical cached value and
\* invokes no provider.
C5_SecondRequestServedFromCache ==
    \A r \in Callers :
        req[r].owed # Null =>
            /\ req[r].pc = "done" /\ req[r].status = 200
            /\ req[r].body = req[r].owed
            /\ req[r].tried = <<>>

\* the reasons an error carries
Reasons(e) == IF "reasons" \in DOMAIN e THEN e.reasons ELSE {}

\* C12 (as claimed): when every provider of the chain has failed,
\* geocodeLocation fails with an aggregate failure that carries the failure
\* reason of each provider that was tried.
C12_AggregateFailureCarriesReasons ==
    \A r \in Callers :
        AllFailed(req[r]) =>
            /\ req[r].thrown # Null
            /\ \A i \in 1..Len(req[r].tried) :
                   GeocoderError(req[r].tried[i].p).message \in Reasons(req[r].thrown)

----------------------------------------------------------------------------
(* The TTL cache store (CacheSpec).  A call whose store access failed      *)
(* (err = "fault") is outside these statements: the store then answers     *)
(* nothing, and the calls degrade to a miss or to a no-op.                  *)

\* C2 (as claimed): two sequential calls setCachedData(k, v1, ttl) and then
\* setCachedData(k, v2, ttl) leave exactly one entry for k, and its value is v2.
C2_OverwriteLeavesNewValue ==
    (last.op = "set" /\ last.err # "fault" /\ last.after # Null)
        => /\ Cardinality(RowsOf(cache, last.key)) = 1
           /\ \A r \in RowsOf(cache, last.key) : r.value = last.val

\* C6 (as claimed): setCachedData(k, v, ttl) with ttl > 0 followed immediately
\* by getCachedData(k) returns v.
C6_RoundTrip ==
    (last.op = "get" /\ last.err # "fault" /\ last.after # Null)
        => last.ret = last.after

\* C7 (as claimed): getCachedData(key) returns the stored value if and only if
\* an entry for key is present and now < expiresAt; in every other case,
\* now = expiresAt included, it returns miss.
C7_HitIffBeforeExpiry ==
    (last.op = "get" /\ last.err # "fault")
        => last.ret = IF last.seen.present /\ last.at < last.seen.expires_at
                      THEN last.seen.value ELSE Null

\* C7 (amended): getCachedData(key) returns the stored value if and only if an
\* entry for key is present and now <= expiresAt; it returns miss in every
\* other case, so a value is returned up to and including the instant
\* expiresAt and never after it.
C7_HitIffNotPastExpiry ==
    (last.op = "get" /\ last.err # "fault")
        => last.ret = IF last.seen.present /\ last.at <= last.seen.expires_at
                      THEN last.seen.value ELSE Null

\* C7 witness: a get at the very instant expiresAt has returned the stored value.
C7_Witness ==
    /\ last.op = "get" /\ last.err # "fault"
    /\ last.seen.present
    /\ last.at = last.seen.expires_at
    /\ last.ret = last.seen.value

\* C8 (as claimed): after setCachedData(k, v, ttl), once more than ttl has
\* elapsed with no further set on k, getCachedData(k) returns miss.
C8_MissAfterTtl ==
    (last.op = "get" /\ last.err # "fault" /\ last.late) => last.ret = Null

\* C9: after any sequence of set, get and sweep steps, in any interleaving,
\* the cache table holds at most one row per key.
C9_AtMostOneEntryPerKey ==
    \A k \in Keys : Cardinality(RowsOf(cache, k)) <= 1

\* C9 witness: a set on a key that already had a row has acted while a get of
\* another caller is between its select and its delete, and the key has one row.
C9_Witness ==
    /\ last.op = "set" /\ last.err = "23505"
    /\ \E c \in Callers : evicting[c] = last.key
    /\ Cardinality(RowsOf(cache, last.key)) = 1

\* C10: a sweep deletes every entry with expiresAt < now and leaves every
\* entry with expiresAt >= now present and unchanged.
C10_SweepDeletesExactlyExpired ==
    (last.op = "sweep" /\ last.err # "fault")
        => cache = {r \in last.pre : r.expires_at >= last.at}

\* C10 witness: a sweep has removed an expired row and kept a row whose
\* expiresAt is exactly the time of the sweep.
C10_Witness ==
    /\ last.op = "sweep" /\ last.err # "fault"
    /\ \E r \in last.pre : r.expires_at < last.at
    /\ \E r \in cache : r.expires_at = last.at

----------------------------------------------------------------------------
(* Store failures seen from a request (SoloSpec) *)

\* C11: a cache store failure is never a hard error for the caller: a failed
\* read is a miss and a failed write returns normally, so the request answers
\* 500 only when every geocoder failed, a request answered from the cache
\* returns the result that was cached, and a request that missed returns the
\* result it computed from the geocoder that succeeded.
C11_StoreFailureIsAMiss ==
    LET q == req[Solo]
    IN /\ q.status = 500 => AllFailed(q)
       /\ (q.pc = "done" /\ q.status = 200 /\ q.tried = <<>>) => q.body = memo[KeyOf(q)]
       /\ (q.pc = "done" /\ q.status = 200 /\ q.tried # <<>>)
             => /\ q.tried[Len(q.tried)].ok
                /\ q.body = [location_name |-> q.input,
                             geocoding |-> [service |-> q.tried[Len(q.tried)].p],
                             timestamp |-> q.body.timestamp]

\* C11 witness: the request has recomputed and answered 200 with its result
\* while the table holds a live entry of its key with another value: its read
\* failed (it would have hit) and its write failed (the entry is not its own).
C11_Witness ==
    LET q == req[Solo]
    IN /\ q.pc = "done" /\ q.status = 200 /\ q.tried # <<>>
       /\ \E row \in RowsOf(cache, KeyOf(q)) :
             /\ ~IsExpired(row.expires_at, now)
             /\ row.value # q.body

----------------------------------------------------------------------------
(* Image verification (VerifySpec) *)

ConfidenceLevels == {"low", "medium", "high"}

\* C13: when Gemini is not configured, fails, times out, or answers a text
\* that cannot be parsed (no JSON object in it, or invalid JSON), the content
\* analysis still yields a result with a confidence level, and nothing is
\* thrown: the request is not answered 500.
C13_HeuristicFloor ==
    LET q == req[Solo]
    IN /\ q.route = "verify" => q.status # 500
       /\ q.path \in {"fallback", "default", "parse fallback"}
             => /\ "confidence_level" \in DOMAIN q.verification
                /\ q.verification.confidence_level \in ConfidenceLevels

\* C13 witness: Gemini answered braces around prose; JSON.parse threw, and the
\* request was answered 200 with the heuristic's result and its confidence level.
C13_Witness ==
    LET q == req[Solo]
    IN /\ q.pc = "done" /\ q.status = 200 /\ q.path = "parse fallback"
       /\ q.body.verification.method = "fallback_analysis"
       /\ q.body.verification.confidence_level \in ConfidenceLevels

\* C14 (as claimed): every path that produces a verification result (the
\* parsed Gemini JSON, the no-JSON default, generateFallbackVerification)
\* yields an object with exactly the same field set.
C14_SameFieldSet ==
    LET q == req[Solo]
    IN q.verification # Null => DOMAIN q.verification = DOMAIN DefaultVerification

\* C15: within one namespace, two distinct text inputs derive distinct cache
\* keys, so that an entry written for one input is never returned for another
C15_DistinctInputsDistinctKeys ==
    \A i, j \in DOMAIN keyed :
        (/\ keyed[i].feature \in Routes
         /\ keyed[i].feature = keyed[j].feature
         /\ keyed[i].input # keyed[j].input) => keyed[i].key # keyed[j].key

\* C16: the keys of different features never collide, whatever the inputs, and
\* in particular on identical input
C16_Namespacing ==
    \A i, j \in DOMAIN keyed :
        keyed[i].feature # keyed[j].feature => keyed[i].key # keyed[j].key

\* two features have derived their keys from one input longer than the slice
C16_Witness ==
    /\ Len(keyed) = 2
    /\ keyed[1].feature = "extract" /\ keyed[2].feature = "coordinates"
    /\ keyed[1].input = keyed[2].input
    /\ Len(keyed[1].input) > KeyBytes
    /\ keyed[1].key # keyed[2].key

----------------------------------------------------------------------------
(* Fan-out to the clients (FanoutSpec) *)

\* the number of times socket s has received event i
Copies(s, i) == Cardinality({n \in DOMAIN inbox[s] : inbox[s][n] = i})

Subscribers == [d \in Disasters |-> InRoom(d)]

----------------------------------------------------------------------------
(* Notification after a write (NotifySpec) *)

\* the write that the event e tells of is in the tables
Committed(e) ==
    CASE e.event = "resources_updated" -> e.disaster \in resources' /\ e.disaster \in disasters'
      [] e.type = "create" -> e.disaster \in disasters' \ disasters
      [] e.type = "update" -> e.disaster \in disasters' /\ disasters' = disasters
      [] OTHER -> e.disaster \in disasters \ disasters'

Emits(type, d) ==
    /\ Len(published') = Len(published) + 1
    /\ LET e == published'[Len(published')]
       IN /\ e.event = "disaster_updated" /\ e.type = type /\ e.disaster = d
          /\ e.status = emitted'.status

\* C32: a step that inserts, updates or deletes a disaster emits one
\* disaster_updated event of the type of the operation, in the step that has
\* the write in the table; a step that answers 400, 404 or 500 writes nothing
\* and emits nothing
C32_OneEventPerWrite ==
    [][/\ \A d \in disasters' \ disasters : Emits("create", d)
       /\ \A d \in disasters \ disasters' : Emits("delete", d)
       /\ (emitted'.status = 200 /\ disasters' = disasters)
             => \E d \in disasters : Emits("update", d)
       /\ emitted'.status \in {400, 404, 500}
             => /\ emitted'.event = None
                /\ published' = published
                /\ disasters' = disasters
       /\ Len(published') <= Len(published) + 1]_vars

\* a disaster was created and deleted, each with its one event, and a later
\* request for it has answered 404 with no event
C32_Witness ==
    /\ Len(published) = 2
    /\ published[1].type = "create" /\ published[2].type = "delete"
    /\ published[1].disaster = published[2].disaster
    /\ published[2].disaster \notin disasters
    /\ emitted.status = 404 /\ emitted.event = None

----------------------------------------------------------------------------
(* Who may write a disaster (AuthSpec) *)

\* C33: a step that inserts, updates or deletes a disaster is the request of a
\* user whose permissions include 'create', 'update' or 'delete'
C33_RoleBasedAccess ==
    [][/\ \A d \in disasters' \ disasters : requirePermission("create", user')
       /\ \A d \in disasters \ disasters' : requirePermission("delete", user')
       /\ \A d \in Disasters :
             updated'[d] > updated[d]
                => requirePermission("update", trail'[d][Len(trail'[d])].user_id)]_vars

\* 'volunteer' has deleted a disaster: the latest request was theirs, was
\* answered 200 with the 'delete' event, and the row is gone
C33_VolunteerDeleted ==
    /\ user = "volunteer"
    /\ emitted.status = 200 /\ emitted.type = "delete"
    /\ emitted.disaster \notin disasters

----------------------------------------------------------------------------
(* The audit trail under concurrent PUTs (AuditSpec) *)

\* sequence s is the beginning of sequence t
IsPrefix(s, t) == Len(s) <= Len(t) /\ \A i \in DOMAIN s : t[i] = s[i]

\* C35: while a disaster is in the table its audit trail only grows at the
\* end, begins with the 'create' entry and has one 'update' entry for each
\* PUT answered 200
C35_AuditTrailAppendOnly ==
    [][\A d \in disasters \cap disasters' :
          /\ IsPrefix(trail[d], trail'[d])
          /\ Len(trail'[d]) = updated'[d] + 1
          /\ trail'[d][1].action = "create"
          /\ \A i \in 2..Len(trail'[d]) : trail'[d][i].action = "update"]_vars

\* two PUTs on a disaster were answered 200 and its trail has two entries
C35_LostUpdate ==
    \E d \in disasters : updated[d] = 2 /\ Len(trail[d]) = 2

----------------------------------------------------------------------------
(* The sample resources (SampleSpec) *)

\* C37 (as claimed): whatever GET /resources/:disasterId requests have run,
\* one after the other or at the same time, with or without lat and lon,
\* createSampleResources has inserted its four rows for a disaster at most once.
C37_SamplesCreatedOnce ==
    \A d \in Disasters : sampled[d] \in {0, SampleRows}

\* two requests for a disaster have each inserted the four sample rows
C37_SamplesTwice ==
    \E d \in Disasters : sampled[d] = 2 * SampleRows

----------------------------------------------------------------------------
(* The fallback chain inside one call (ChainSpec) *)

\* C22: at most one geocoder of a call has a request in flight; the geocoders
\* invoked so far are the first ones of the list, in order, and each one
\* before the latest has ended without a result
C22_StrictlySequential ==
    /\ Cardinality(chain.inflight) <= 1
    /\ Len(chain.tried) <= Len(geocoders)
    /\ \A i \in DOMAIN chain.tried :
          /\ chain.tried[i].p = geocoders[i]
          /\ i < Len(chain.tried)
                => chain.tried[i].ended \in {"not configured", "no result", "rejected"}
    /\ chain.inflight # {} => chain.inflight = {chain.tried[Len(chain.tried)].p}

\* the third geocoder is in flight after the first two were asked and failed
C22_Witness ==
    /\ chain.inflight = {"openstreetmap"}
    /\ Len(chain.tried) = 3
    /\ chain.tried[1].sent /\ chain.tried[1].ended = "rejected"
    /\ chain.tried[2].sent /\ chain.tried[2].ended = "no result"

\* C23: a geocoder whose credential is missing sends no request and fails at
\* once, and the loop goes on to the next geocoder
C23_UnconfiguredFailsFast ==
    \A i \in DOMAIN chain.tried :
        chain.tried[i].p \in Credentials \ chain.env
            => /\ ~chain.tried[i].sent
               /\ chain.tried[i].ended = "not configured"
               /\ chain.tried[i].p \notin chain.inflight
               /\ \/ Len(chain.tried) > i
                  \/ chain.pc = "loop" /\ chain.idx = i + 1

\* with neither credential set, the first request sent is the one to
\* OpenStreetMap
C23_Witness ==
    /\ chain.env = {}
    /\ Len(chain.tried) = 3
    /\ ~chain.tried[1].sent /\ ~chain.tried[2].sent
    /\ chain.tried[3].sent /\ chain.inflight = {"openstreetmap"}

\* C30: a call invokes each geocoder at most once, so it makes at most three
\* invocations and sends at most three requests
C30_NoRetries ==
    /\ \A i, j \in DOMAIN chain.tried : i # j => chain.tried[i].p # chain.tried[j].p
    /\ Len(chain.tried) <= Len(geocoders)
    /\ Cardinality({i \in DOMAIN chain.tried : chain.tried[i].sent}) <= 3

\* all three geocoders were asked once, each request was rejected, and the
\* call threw
C30_Witness ==
    /\ chain.pc = "threw"
    /\ Len(chain.tried) = 3
    /\ \A i \in DOMAIN chain.tried : chain.tried[i].sent /\ chain.tried[i].ended = "rejected"

----------------------------------------------------------------------------
(* The documented TTLs (FeedSpec, TtlSpec) *)

\* the documented kinds whose keys begin as `key` does (one, or none)
KindsOf(key) ==
    {kind \in Documented :
        /\ Len(Namespace(kind)) <= Len(key)
        /\ SubSeq(key, 1, Len(Namespace(kind))) = Namespace(kind)}

\* an entry written by a step runs out the documented TTL of its kind after
\* that step, in which the route has finished the response and handed it to
\* setCachedData
WrittenWithTtl ==
    \A r \in cache' \ cache : \A kind \in KindsOf(r.key) :
        r.expires_at = now + DocumentedTtl(kind) * MsPerSecond

\* a feed answered from the cache was computed (summary.last_updated) at most
\* its TTL before
FeedWithinTtl ==
    served' # served
        => served'.at - served'.body.last_updated
               <= DocumentedTtl(served'.feature) * MsPerSecond

\* a geocoding or verification request answered from the cache got the value
\* of an entry of its key that had not run out
RouteWithinTtl ==
    (req[Solo].pc = "lookup" /\ req'[Solo].pc = "done")
        => \E r \in cache : /\ r.key = KeyOf(req[Solo])
                            /\ r.value = req'[Solo].body
                            /\ now <= r.expires_at

C24_TimestampWithinTtl ==
    [][(req[Solo].pc = "lookup" /\ req'[Solo].pc = "done")
           => now - req'[Solo].body.timestamp
                  <= DocumentedTtl(req[Solo].route) * MsPerSecond]_vars

----------------------------------------------------------------------------
(* The sweep's failure (CacheSpec) *)

\* C25: a failing clearExpiredCache raises no error into any request path (no
\* call of a caller is touched by it), leaves the store unchanged, and does not
\* stop later scheduled sweeps (the next sweep can run).
C25_SweepFailureContained ==
    /\ []((last.op = "sweep" /\ last.err = "fault")
              => (cache = last.pre /\ ENABLED CacheSweep))
    /\ [][(last'.op = "sweep" /\ last'.err = "fault" /\ last' # last)
              => (evicting' = evicting /\ req' = req)]_vars

\* C25 witness: a sweep has failed while an expired entry was in the store and
\* a caller was between the select and the delete of its getCachedData
C25_Witness ==
    /\ last.op = "sweep" /\ last.err = "fault"
    /\ \E r \in cache : r.expires_at < now
    /\ \E c \in Callers : evicting[c] # NoKey

----------------------------------------------------------------------------
(* Malformed answers of Gemini (VerifySpec) *)

\* C26 (as claimed): when Gemini answers a text that cannot be parsed into the
\* expected shape (no JSON object in it, invalid JSON, or an object without
\* the expected members), Gemini is treated as failed and the next stage, the
\* heuristic fallback, makes the result; the malformed payload is never
\* returned as the verification.
C26_MalformedFallsThrough ==
    LET q == req[Solo]
    IN q.verification # Null
          => /\ q.path \in {"default", "parse fallback"}
                   => \E k \in Draws : q.verification = generateFallbackVerification(k)
             /\ q.path = "parsed"
                   => DOMAIN DefaultVerification \subseteq DOMAIN q.verification

\* the status that the claim gives a score
StatusOfScore(score) ==
    CASE score >= 70 -> "verified"
      [] score >= 40 /\ score < 70 -> "questionable"
      [] score < 40 -> "rejected"

\* C38: the status of a verification with a score is 'verified' from 70,
\* 'questionable' from 40 and 'rejected' below; it is computed, and table
\* `reports` is written, only in a request with a report_id, the write changes
\* only that report, and when the write fails the request goes on to its 200
C38_StatusFromScore ==
    [][LET q == req[Solo]
           p == req'[Solo]
       IN /\ reports' # reports
                => /\ q.pc = "report" /\ q.report_id \in ReportIds
                   /\ reports' = [reports EXCEPT ![q.report_id] = p.verification_status]
          /\ (q.pc = "report" /\ p.pc # "report")
                => /\ p.pc = "store"
                   /\ "authenticity_score" \in DOMAIN q.verification
                         => p.verification_status
                               = StatusOfScore(q.verification.authenticity_score)
          /\ p.verification_status # None => p.report_id # None
          /\ (p.pc = "done" /\ p.route = "verify" /\ p.verification # Null)
                => p.status = 200]_vars

\* the write of the status failed: the report is as it was, and the request
\* was answered 200 with the status of the score 50
C38_Witness ==
    LET q == req[Solo]
    IN /\ q.pc = "done" /\ q.status = 200 /\ q.report_id \in ReportIds
       /\ "authenticity_score" \in DOMAIN q.verification
       /\ q.verification.authenticity_score = 50
       /\ q.verification_status = "questionable"
       /\ q.body.verification_status = "questionable"
       /\ reports[q.report_id] = "pending"

----------------------------------------------------------------------------
(* Concurrent gets and sets on one key (CacheSpec) *)

\* every row a step puts into the table has the value and the expires_at of
\* the one setCachedData that step is, and a get returns null or the whole
\* value of a row of its key
NoTornEntry ==
    /\ \A r \in cache' \ cache :
          /\ last'.op = "set" /\ last'.key = r.key
          /\ r.value = last'.val /\ r.expires_at = last'.due
    /\ (last'.op = "get" /\ last'.ret # Null)
          => \E r \in cache : r.key = last'.key /\ r.value = last'.ret

\* the row of the key is the one of the set that reached the store last
LastWriteWins ==
    (last'.op = "set" /\ last'.err # "fault")
        => RowsOf(cache', last'.key) =
               {r \in cache' : /\ r.key = last'.key /\ r.value = last'.val
                               /\ r.expires_at = last'.due}

\* C27 (as claimed): gets and sets of several callers on the same key never
\* corrupt the entry: its value and expiresAt come from one and the same set,
\* a get returns miss or the complete value of some set, and the entry is the
\* one of the last write the store observed.
C27_ConcurrentGetSet == [][NoTornEntry /\ LastWriteWins]_vars

\* the entry is never torn, whatever becomes of a second write
C27_NoTornEntry == [][NoTornEntry]_vars

\* C34 (as claimed): the delete that a get issues after it has read an
\* expired row removes no row that is live when the delete runs, whatever
\* sets, gets and sweeps ran between the read and the delete.
C34_LazyEvictionSparesLive ==
    [][last'.op = "evict"
          => \A r \in cache \ cache' : IsExpired(r.expires_at, now)]_vars

\* the latest step was the delete of a get and it removed a row that had not
\* expired
C34_LiveEntryDeleted ==
    /\ last.op = "evict"
    /\ \E r \in last.pre \ cache : ~IsExpired(r.expires_at, last.at)

\* C36: a get that returns a value leaves every row of the table as it was
\* and schedules no delete
C36_HitLeavesStoreUnchanged ==
    [][(last'.op = "get" /\ last'.ret # Null)
          => (cache' = cache /\ evicting' = evicting)]_vars

\* a get after the clock has advanced has returned the value of a row that is
\* in the table with the expiry its set gave it
C36_Witness ==
    /\ last.op = "get" /\ last.ret # Null /\ last.at > 0
    /\ \E r \in cache : /\ r.key = last.key /\ r.value = last.ret
                        /\ r.expires_at = ExpiresAt(0, MaxTtl)

----------------------------------------------------------------------------
(* The client goes away (CancelSpec) *)

\* C28 (as claimed): once the caller of an in-flight /coordinates request has
\* cancelled, the iteration over the geocoders stops: no later geocoder is
\* invoked and no cache entry is written.
C28_CancellationStops ==
    [][req[Solo].aborted
           => /\ Len(req'[Solo].tried) <= Len(req[Solo].tried)
              /\ cache' \subseteq cache]_vars

----------------------------------------------------------------------------
(* Equal logical inputs (KeySpec) *)

\* a text without its leading and trailing blanks, in lower case
Lower(c) == IF c = "A" THEN "a" ELSE c

Canonicalize(input) ==
    LET inked == {i \in 1..Len(input) : input[i] # " "}
    IN IF inked = {} THEN <<>>
       ELSE [i \in 1..(Greatest(inked) - Least(inked) + 1) |->
                Lower(input[Least(inked) + i - 1])]

\* C29 (as claimed): the key is a function of the input, and two text inputs
\* of a route that differ only in letter case or in surrounding whitespace
\* derive the same key.
C29_EqualLogicalInputsEqualKeys ==
    \A i, j \in DOMAIN keyed :
        (/\ keyed[i].feature \in Routes
         /\ keyed[i].feature = keyed[j].feature
         /\ Canonicalize(keyed[i].input) = Canonicalize(keyed[j].input))
            => keyed[i].key = keyed[j].key

\* the key is a function of the input: the same input derives the same key
C29_Deterministic ==
    \A i, j \in DOMAIN keyed :
        (keyed[i].feature = keyed[j].feature /\ keyed[i].input = keyed[j].input)
            => keyed[i].key = keyed[j].key

----------------------------------------------------------------------------
(* Termination of the chain (ChainLiveSpec) *)

\* C31: a call of geocodeLocation whose requests all end (with an answer, a
\* rejection or the 10 s timeout) ends itself: it returns a result or throws
\* 'All geocoding services failed'.
C31_ChainTerminates ==
    (chain.pc \in {"loop", "await"}) ~> (chain.pc \in {"returned", "threw"})

\* C31 witness: the requests to Google Maps and Mapbox were rejected (timed
\* out), and the call has returned the result of OpenStreetMap
C31_Witness ==
    /\ chain.pc = "returned"
    /\ chain.result = [service |-> "openstreetmap"]
    /\ Len(chain.tried) = 3
    /\ chain.tried[1].ended = "rejected"
    /\ chain.tried[2].ended = "rejected"

====
